---------------------------- MODULE Spec2Model ----------------------------
(***************************************************************************)
(* Candidate-Pool-Management: the multi-metric similarity engine           *)
(* (AdvancedSimilarityEngine), its per-job context cache, the seven        *)
(* metrics and the weighted combination, modelled from the Python source.  *)
(*                                                                         *)
(* Conventions.  A Python dict is a TLA+ record and d.get(k, default) is   *)
(* Get(d, k, default).  A Python list is a sequence.  A str-or-None value  *)
(* is a string, None being the string None.  An int-or-None value is a     *)
(* sequence of length 0 (None) or 1.  A float is an exact rational <<n,d>> *)
(* in lowest terms with d > 0.                                             *)
(***************************************************************************)
EXTENDS Integers, Sequences, FiniteSets, TLC

\* ------------------------------------------------------------------------
\* Bounds of the model (not program constants)
\* ------------------------------------------------------------------------
MaxJobId == 2
MaxCandId == 3
MaxBatch == 3
MaxObjects == 4
NumCallers == 2
CountCap == 2
MaxYears == 22
MaxPool == 4
MaxLimit == 3
MaxSkills == 2
MaxLanguages == 2

\* ------------------------------------------------------------------------
\* Exact rational arithmetic standing for Python floats
\* ------------------------------------------------------------------------
RECURSIVE GCD(_, _)
GCD(a, b) == IF b = 0 THEN a ELSE GCD(b, a % b)

Abs(n) == IF n < 0 THEN -n ELSE n

Norm(n, d) ==
    LET g == GCD(Abs(n), d)
    IN  IF n = 0 THEN <<0, 1>> ELSE <<n \div g, d \div g>>

R(n, d) == Norm(n, d)

Zero == R(0, 1)
One == R(1, 1)

RAdd(x, y) ==
    LET l == (x[2] \div GCD(x[2], y[2])) * y[2]
    IN  Norm(x[1] * (l \div x[2]) + y[1] * (l \div y[2]), l)

RNeg(x) == <<-x[1], x[2]>>

RSub(x, y) == RAdd(x, RNeg(y))

RMul(x, y) ==
    LET a == Norm(x[1], y[2])
        b == Norm(y[1], x[2])
    IN  Norm(a[1] * b[1], a[2] * b[2])

\* x / y for y # 0
RDiv(x, y) == RMul(x, IF y[1] < 0 THEN <<-y[2], -y[1]>> ELSE <<y[2], y[1]>>)

RLe(x, y) == x[1] * y[2] <= y[1] * x[2]
RLt(x, y) == x[1] * y[2] < y[1] * x[2]
RGe(x, y) == RLe(y, x)
RGt(x, y) == RLt(y, x)

RMax(x, y) == IF RLe(x, y) THEN y ELSE x
RMin(x, y) == IF RLe(x, y) THEN x ELSE y

RInt(n) == <<n, 1>>

InUnit(x) == RLe(Zero, x) /\ RLe(x, One)

\* round(x, 4): the nearest multiple of 1/10000, ties to even; long division
\* keeps every intermediate product small
RECURSIVE Digits4(_, _, _, _)
Digits4(q, rem, d, k) ==
    IF k = 0 THEN <<q, rem>>
    ELSE Digits4(q * 10 + ((rem * 10) \div d), (rem * 10) % d, d, k - 1)

Round4(x) ==
    LET qr == Digits4(x[1] \div x[2], x[1] % x[2], x[2], 4)
        q  == qr[1]
        r2 == 2 * qr[2]
        up == r2 > x[2] \/ (r2 = x[2] /\ q % 2 = 1)
    IN  Norm(IF up THEN q + 1 ELSE q, 10000)

\* ------------------------------------------------------------------------
\* Python values
\* ------------------------------------------------------------------------
None == "None"
NoInt == <<>>
Some(n) == <<n>>

\* dict.get(key, default)
Get(d, k, default) == IF k \in DOMAIN d THEN d[k] ELSE default

\* truthiness of a str-or-None value
Truthy(s) == s # None /\ s # ""

\* `v or 0` for an int-or-None value
OrZero(v) == IF Len(v) = 0 THEN 0 ELSE v[1]

Range(s) == {s[i] : i \in DOMAIN s}

RECURSIVE Join(_, _)
Join(parts, sep) ==
    IF Len(parts) = 0 THEN ""
    ELSE IF Len(parts) = 1 THEN parts[1]
    ELSE parts[1] \o sep \o Join(Tail(parts), sep)

\* str.lower() on the strings of the model; None.lower() raises (CanLower)
CanLower(s) == s # None

Lower(s) ==
    CASE s = "Python" -> "python"
      [] s = "Java" -> "java"
      [] s = "SQL" -> "sql"
      [] s = "PMP" -> "pmp"
      [] s = "English" -> "english"
      [] s = "French" -> "french"
      [] s = "Englsh" -> "englsh"
      [] s = "Native" -> "native"
      [] s = "Fluent" -> "fluent"
      [] s = "Senior" -> "senior"
      [] s = "Mid-Level" -> "mid-level"
      [] s = "Backend Engineer" -> "backend engineer"
      [] s = "Data Analyst" -> "data analyst"
      [] s = "AWS Certified " -> "aws certified "
      [] s = "BSc" -> "bsc"
      [] s = "Computer Science" -> "computer science"
      [] s = "Bachelor in Computer Science" -> "bachelor in computer science"
      [] OTHER -> s

\* str.strip() on the strings of the model
Strip(s) ==
    CASE s = "aws certified " -> "aws certified"
      [] s = "Backend role Build APIs " -> "Backend role Build APIs"
      [] OTHER -> s

\* difflib.SequenceMatcher(None, a, b).ratio(): 2*M/(len(a)+len(b)), tabulated
\* for the strings of the model (the values difflib returns for them)
SMRatio(a, b) ==
    IF a = b THEN One
    ELSE CASE <<a, b>> \in {<<"Python", "python">>, <<"python", "Python">>} -> R(5, 6)
           [] <<a, b>> \in {<<"Java", "java">>, <<"java", "Java">>} -> R(3, 4)
           [] <<a, b>> \in {<<"english", "englsh">>, <<"englsh", "english">>} -> R(12, 13)
           [] <<a, b>> \in {<<"english", "french">>, <<"french", "english">>} -> R(6, 13)
           [] <<a, b>> \in {<<"englsh", "french">>, <<"french", "englsh">>} -> R(1, 2)
           [] <<a, b>> \in {<<"spanish", "english">>, <<"english", "spanish">>} -> R(4, 7)
           [] <<a, b>> \in {<<"spanish", "englsh">>, <<"englsh", "spanish">>} -> R(6, 13)
           [] <<a, b>> \in {<<"spanish", "french">>, <<"french", "spanish">>} -> R(4, 13)
           [] <<a, b>> = <<"backend engineer", "data analyst">> -> R(1, 7)
           [] <<a, b>> = <<"data analyst", "backend engineer">> -> R(3, 14)
           [] <<a, b>> = <<"bachelor in computer science", "computer science">> -> R(8, 11)
           [] <<a, b>> = <<"bachelor in computer science", "bsc">> -> R(6, 31)
           [] <<a, b>> = <<"aws certified", "aws certifed">> -> R(24, 25)
           [] OTHER -> Zero

\* The embedding provider: the score InMemoryVectorStore.similarity_search_with_score
\* reports for (query, document), in [-1, 1]
ProviderScore(query, doc) ==
    CASE <<query, doc>> = <<"build apis", "Job requirements: Backend role Build APIs">>
            -> R(1, 2)
      [] <<query, doc>> = <<"analyse data", "Job requirements: Backend role Build APIs">>
            -> R(-1, 2)
      [] <<query, doc>> = <<"clean data", "Job requirements: Backend role Build APIs">>
            -> R(-1, 1)
      [] <<query, doc>> = <<"backend developer", "Backend role">> -> R(1, 2)
      [] <<query, doc>> = <<"data person", "Backend role">> -> R(-1, 1)
      [] OTHER -> Zero

\* ------------------------------------------------------------------------
\* Job Context Builder: the extract_job_* static methods
\* ------------------------------------------------------------------------
RECURSIVE FlattenJobSkills(_)
FlattenJobSkills(cats) ==
    IF Len(cats) = 0 THEN <<>>
    ELSE LET c == Head(cats)
             part == IF "requirements" \in DOMAIN c THEN c.requirements
                     ELSE IF "skills" \in DOMAIN c THEN c.skills
                     ELSE IF "name" \in DOMAIN c THEN <<c.name>>
                     ELSE <<>>
         IN  part \o FlattenJobSkills(Tail(cats))

\* a list-valued sub-field that is null (None where a list is expected)
NullList == <<"<null>">>

\* skills.extend(None) raises: a category whose list of requirements (or, without
\* that key, of skills) is null
JobSkillCategoryRaises(c) ==
    IF "requirements" \in DOMAIN c THEN c.requirements = NullList
    ELSE "skills" \in DOMAIN c /\ c.skills = NullList

JobSkillFields(job) ==
    Get(job, "required_skills", <<>>) \o Get(job, "skills", <<>>)
        \o Get(job, "technical_skills", <<>>) \o Get(job, "core_skills", <<>>)

extract_job_required_skills_raises(job) ==
    \E i \in DOMAIN JobSkillFields(job) : JobSkillCategoryRaises(JobSkillFields(job)[i])

extract_job_required_skills(job) ==
    SelectSeq(FlattenJobSkills(Get(job, "required_skills", <<>>))
                \o FlattenJobSkills(Get(job, "skills", <<>>))
                \o FlattenJobSkills(Get(job, "technical_skills", <<>>))
                \o FlattenJobSkills(Get(job, "core_skills", <<>>)),
              Truthy)

extract_job_responsibilities_and_description(job) ==
    LET desc == Get(job, "job_description", "")
        summ == Get(job, "job_summary", "")
        p1   == IF Truthy(desc) THEN <<desc>> ELSE <<>>
        p2   == IF Truthy(summ) THEN <<summ>> ELSE <<>>
    IN  Strip(Join(p1 \o p2 \o Get(job, "responsibilities", <<>>), " "))

extract_job_education_requirements(job) == Get(job, "education_requirements", <<>>)

\* one entry of a language field: <<>> when the entry has no name
JobLanguageEntry(lang) ==
    LET name  == Lower(Get(lang, "language", ""))
        level == IF Lower(Get(lang, "level", "")) # ""
                 THEN Lower(Get(lang, "level", ""))
                 ELSE Lower(Get(lang, "proficiency", ""))
    IN  IF name # ""
        THEN <<[language |-> name,
                required_level |-> IF level # "" THEN level ELSE "basic"]>>
        ELSE <<>>

\* .lower() of a None language, level or proficiency raises inside the loop
JobLanguageEntryRaises(lang) ==
    \/ ~CanLower(Get(lang, "language", ""))
    \/ ~CanLower(Get(lang, "level", ""))
    \/ (Lower(Get(lang, "level", "")) = "" /\ ~CanLower(Get(lang, "proficiency", "")))

RECURSIVE JobLanguages(_)
JobLanguages(langs) ==
    IF Len(langs) = 0 THEN <<>>
    ELSE JobLanguageEntry(Head(langs)) \o JobLanguages(Tail(langs))

JobLanguageFields(job) ==
    Get(job, "required_languages", <<>>) \o Get(job, "languages", <<>>)
        \o Get(job, "language_requirements", <<>>)

extract_job_required_languages(job) == JobLanguages(JobLanguageFields(job))

extract_job_required_languages_raises(job) ==
    \E i \in DOMAIN JobLanguageFields(job) :
        JobLanguageEntryRaises(JobLanguageFields(job)[i])

\* cert.get("name", "") or cert.get("certification", "")
CertName(cert) ==
    IF Truthy(Get(cert, "name", "")) THEN cert.name
    ELSE Get(cert, "certification", "")

RECURSIVE CertNames(_)
CertNames(certs) ==
    IF Len(certs) = 0 THEN <<>>
    ELSE (IF Truthy(CertName(Head(certs)))
          THEN <<Strip(Lower(CertName(Head(certs))))>> ELSE <<>>)
         \o CertNames(Tail(certs))

extract_job_required_certifications(job) ==
    SelectSeq(CertNames(Get(job, "required_certifications", <<>>)
                         \o Get(job, "certifications", <<>>)
                         \o Get(job, "certification_requirements", <<>>)
                         \o Get(job, "preferred_certifications", <<>>)),
              Truthy)

\* the exception that leaves preprocess_job while the fields are extracted, "" when
\* there is none: the skills are extracted before the languages
BuildJobContextError(job) ==
    IF extract_job_required_skills_raises(job) THEN "TypeError"
    ELSE IF extract_job_required_languages_raises(job) THEN "AttributeError"
    ELSE ""

\* JobContext(...) as preprocess_job fills it
BuildJobContext(job_id, job) ==
    [job_id |-> job_id,
     job_data |-> job,
     required_skills |-> extract_job_required_skills(job),
     job_responsibilities_text |-> extract_job_responsibilities_and_description(job),
     education_requirements |-> extract_job_education_requirements(job),
     required_languages |-> extract_job_required_languages(job),
     required_certifications |-> extract_job_required_certifications(job),
     min_years_experience |-> OrZero(Get(job, "min_years_experience", Some(0))),
     max_years_experience |-> Get(job, "max_years_experience", NoInt),
     seniority_level |-> IF Truthy(Get(job, "seniority_level", ""))
                         THEN job.seniority_level ELSE "",
     job_summary |-> IF Truthy(Get(job, "job_summary", "")) THEN job.job_summary ELSE "",
     vector_store |-> "None"]

\* ------------------------------------------------------------------------
\* The seven metrics.  A metric whose calculate() has a try/except yields its
\* fallback where the body raises; ExperienceSimilarityMetric.calculate has
\* none, so it yields [raised, value, vector_store].
\* ------------------------------------------------------------------------
RMaxSet(S) == CHOOSE x \in S : \A y \in S : RLe(y, x)

\* --- Skills -------------------------------------------------------------
SkillsThreshold == R(3, 5)

RECURSIVE FlattenCandidateSkills(_)
FlattenCandidateSkills(cats) ==
    IF Len(cats) = 0 THEN <<>>
    ELSE LET c == Head(cats)
             part == IF "skills" \in DOMAIN c THEN c.skills
                     ELSE IF "name" \in DOMAIN c THEN <<c.name>>
                     ELSE <<>>
         IN  part \o FlattenCandidateSkills(Tail(cats))

extract_candidate_skills(candidate) ==
    SelectSeq(FlattenCandidateSkills(Get(candidate, "skills", <<>>)), Truthy)

\* matching by verbatim occurrence only
fuzzy_match_skills_verbatim(candidate_skills, required_skills) ==
    {r \in Range(required_skills) : r \in Range(candidate_skills)}

fuzzy_match_skills(candidate_skills, required_skills) ==
    {r \in Range(required_skills) :
        \/ r \in Range(candidate_skills)
        \/ \E c \in Range(candidate_skills) : RGe(SMRatio(r, c), SkillsThreshold)}

SkillsCalculate(candidate, job_context) ==
    LET candidate_skills == extract_candidate_skills(candidate)
        required_skills  == job_context.required_skills
        matched          == fuzzy_match_skills(candidate_skills, required_skills)
        union_size       == Cardinality(Range(candidate_skills) \cup Range(required_skills))
    IN  IF Len(required_skills) = 0 THEN R(4, 5)
        ELSE IF Len(candidate_skills) = 0 THEN Zero
        ELSE IF union_size = 0 THEN Zero
        ELSE RMin(R(Cardinality(matched), union_size), One)

\* --- Certification ------------------------------------------------------
CertificationThreshold == R(4, 5)

extract_candidate_certifications(candidate) ==
    SelectSeq(CertNames(Get(candidate, "certifications", <<>>)), Truthy)

find_matching_certification(required_cert, candidate_certifications) ==
    \/ required_cert \in Range(candidate_certifications)
    \/ \E c \in Range(candidate_certifications) :
           RGe(SMRatio(required_cert, c), CertificationThreshold)

CertificationCalculate(candidate, job_context) ==
    LET cc  == extract_candidate_certifications(candidate)
        req == job_context.required_certifications
        matched == Cardinality({i \in DOMAIN req : find_matching_certification(req[i], cc)})
    IN  IF Len(req) = 0 THEN R(9, 10)
        ELSE IF Len(cc) = 0 THEN Zero
        ELSE RMin(R(matched, Len(req)), One)

\* --- Education (per-requirement matching) -------------------------------
EducationThreshold == R(7, 10)

CandidateDegrees(education) ==
    {Lower(education[i].degree) :
        i \in {k \in DOMAIN education : Truthy(Get(education[k], "degree", ""))}}

CandidateFields(education) ==
    {Lower(education[i].field_of_study) :
        i \in {k \in DOMAIN education : Truthy(Get(education[k], "field_of_study", ""))}}

EducationCalculate(candidate, job_context) ==
    LET education == Get(candidate, "education", <<>>)
        reqs      == job_context.education_requirements
        hit(req)  == \/ \E deg \in CandidateDegrees(education) :
                            RGt(SMRatio(Lower(req), deg), EducationThreshold)
                     \/ \E fld \in CandidateFields(education) :
                            RGt(SMRatio(Lower(req), fld), EducationThreshold)
        score     == Cardinality({i \in DOMAIN reqs : hit(reqs[i])})
    IN  IF Len(reqs) = 0 THEN R(4, 5)
        ELSE IF Len(education) = 0 THEN Zero
        ELSE IF \E i \in DOMAIN reqs : ~CanLower(reqs[i]) THEN Zero
        ELSE R(score, Len(reqs))

\* --- Language -----------------------------------------------------------
LanguageNameThreshold == R(4, 5)

\* the map with native and bilingual ranked like fluent
ProficiencyLevelNativeAsFluent(level) ==
    CASE level \in {"basic", "elementary", "beginner"} -> 1
      [] level \in {"intermediate", "conversational"} -> 2
      [] level = "advanced" -> 3
      [] level \in {"fluent", "native", "bilingual"} -> 4
      [] OTHER -> 1

ProficiencyLevel(level) ==
    CASE level \in {"basic", "elementary", "beginner"} -> 1
      [] level \in {"intermediate", "conversational"} -> 2
      [] level = "advanced" -> 3
      [] level = "fluent" -> 4
      [] level \in {"native", "bilingual"} -> 5
      [] OTHER -> 1

\* a list element that is a plain str s is written [str |-> s]; any other record
\* is a dict
IsStr(l) == DOMAIN l = {"str"}

RECURSIVE CandidateLanguages(_)
CandidateLanguages(langs) ==
    IF Len(langs) = 0 THEN <<>>
    ELSE LET l == Head(langs)
             name == Lower(Get(l, "language", ""))
         IN  (IF IsStr(l)
              THEN <<[language |-> Lower(l.str), proficiency |-> "fluent"]>>
              ELSE IF name # ""
              THEN <<[language |-> name, proficiency |-> Lower(Get(l, "proficiency", ""))]>>
              ELSE <<>>) \o CandidateLanguages(Tail(langs))

extract_candidate_languages(candidate) == CandidateLanguages(Get(candidate, "languages", <<>>))

extract_candidate_languages_raises(candidate) ==
    \E i \in DOMAIN Get(candidate, "languages", <<>>) :
        LET l == candidate.languages[i]
        IN  /\ ~IsStr(l)
            /\ ~CanLower(Get(l, "language", "")) \/ ~CanLower(Get(l, "proficiency", ""))

calculate_single_language_match(required_lang, candidate_languages) ==
    LET required_level_score == ProficiencyLevel(Get(required_lang, "required_level", "basic"))
        match(cl) ==
            LET name_similarity == SMRatio(required_lang.language, cl.language)
                cand_level      == ProficiencyLevel(Get(cl, "proficiency", "basic"))
                proficiency     == IF cand_level >= required_level_score THEN One
                                   ELSE R(cand_level, required_level_score)
            IN  RMul(name_similarity, proficiency)
    IN  RMaxSet({Zero} \cup
                {match(candidate_languages[i]) :
                    i \in {k \in DOMAIN candidate_languages :
                             RGe(SMRatio(required_lang.language,
                                         candidate_languages[k].language),
                                 LanguageNameThreshold)}})

RECURSIVE LanguageTotal(_, _)
LanguageTotal(reqs, candidate_languages) ==
    IF Len(reqs) = 0 THEN Zero
    ELSE RAdd(calculate_single_language_match(Head(reqs), candidate_languages),
              LanguageTotal(Tail(reqs), candidate_languages))

LanguageCalculate(candidate, job_context) ==
    LET reqs == job_context.required_languages
    IN  IF extract_candidate_languages_raises(candidate) THEN R(1, 2)
        ELSE IF Len(reqs) = 0 THEN R(9, 10)
        ELSE IF Len(extract_candidate_languages(candidate)) = 0 THEN Zero
        ELSE RMin(RDiv(LanguageTotal(reqs, extract_candidate_languages(candidate)),
                       RInt(Len(reqs))),
                  One)

\* --- Seniority ----------------------------------------------------------
SeniorityLabels ==
    {"entry-level", "junior", "mid-level", "senior", "executive", "lead", "principal"}

\* the table with the senior band starting two years early
seniority_ranges_early_senior(label) ==
    CASE label = "entry-level" -> <<0, 2>>
      [] label = "junior" -> <<0, 3>>
      [] label = "mid-level" -> <<3, 7>>
      [] label = "senior" -> <<5, 15>>
      [] label = "executive" -> <<15, 100>>
      [] label = "lead" -> <<5, 100>>
      [] label = "principal" -> <<10, 100>>

seniority_ranges(label) ==
    CASE label = "entry-level" -> <<0, 2>>
      [] label = "junior" -> <<0, 3>>
      [] label = "mid-level" -> <<3, 7>>
      [] label = "senior" -> <<7, 15>>
      [] label = "executive" -> <<15, 100>>
      [] label = "lead" -> <<5, 100>>
      [] label = "principal" -> <<10, 100>>

IntMax(a, b) == IF a >= b THEN a ELSE b

SeniorityCalculate(candidate, job_context) ==
    LET candidate_years == OrZero(Get(candidate, "years_of_experience", Some(0)))
        job_seniority   == Lower(job_context.seniority_level)
        job_min_years   == job_context.min_years_experience
    IN  IF job_seniority \in SeniorityLabels
        THEN LET min_years == seniority_ranges(job_seniority)[1]
                 max_years == seniority_ranges(job_seniority)[2]
             IN  IF min_years <= candidate_years /\ candidate_years <= max_years THEN One
                 ELSE IF candidate_years < min_years
                 THEN RMax(R(3, 10), R(candidate_years, IntMax(min_years, 1)))
                 ELSE RMax(R(7, 10),
                           RSub(One, RMul(RInt(candidate_years - max_years), R(1, 20))))
        ELSE IF job_min_years > 0
        THEN IF candidate_years >= job_min_years THEN One
             ELSE RMax(R(3, 10), R(candidate_years, job_min_years))
        ELSE R(4, 5)

\* --- Embedding similarity ------------------------------------------------
\* max(0.0, 1.0 - score / 2.0) then min(.., 1.0)
\* the conversion without its clamp to [0, 1]
ScoreToSimilarityUnclamped(score) == RSub(One, RDiv(score, RInt(2)))

ScoreToSimilarity(score) == RMin(RMax(Zero, RSub(One, RDiv(score, RInt(2)))), One)

\* --- Experience ---------------------------------------------------------
\* The lazy index of a Job Context: "None" (absent), "empty" (an
\* InMemoryVectorStore was assigned and add_texts raised) or "indexed".
\* up: whether the embedding provider answers during this scoring call.
\* a variant that answers 0.0 whenever the store is already attached
calculate_responsibility_similarity_first_only(experience, job_context, vs, up) ==
    LET resp == Get(experience, "responsibilities", <<>>)
        text == job_context.job_responsibilities_text
    IN  IF Len(resp) = 0 THEN [value |-> Zero, vs |-> vs]
        ELSE IF text = "" THEN [value |-> Zero, vs |-> vs]
        ELSE IF vs # "None" THEN [value |-> Zero, vs |-> vs]
        ELSE IF ~up THEN [value |-> Zero, vs |-> "empty"]
        ELSE [value |-> ScoreToSimilarity(
                            ProviderScore(Join(resp, " "), "Job requirements: " \o text)),
              vs |-> "indexed"]

\* a variant that builds the store on every call, whether one is attached or not
calculate_responsibility_similarity_rebuilds(experience, job_context, vs, up) ==
    LET resp == Get(experience, "responsibilities", <<>>)
        text == job_context.job_responsibilities_text
        vs1  == IF up THEN "indexed" ELSE "empty"
    IN  IF Len(resp) = 0 THEN [value |-> Zero, vs |-> vs]
        ELSE IF text = "" THEN [value |-> Zero, vs |-> vs]
        ELSE IF ~up THEN [value |-> Zero, vs |-> vs1]
        ELSE [value |-> ScoreToSimilarity(
                            ProviderScore(Join(resp, " "), "Job requirements: " \o text)),
              vs |-> vs1]

calculate_responsibility_similarity(experience, job_context, vs, up) ==
    LET resp == Get(experience, "responsibilities", <<>>)
        text == job_context.job_responsibilities_text
        vs1  == IF vs = "None" THEN (IF up THEN "indexed" ELSE "empty") ELSE vs
    IN  IF Len(resp) = 0 THEN [value |-> Zero, vs |-> vs]
        ELSE IF text = "" THEN [value |-> Zero, vs |-> vs]
        ELSE IF ~up THEN [value |-> Zero, vs |-> vs1]
        ELSE IF vs1 = "empty" THEN [value |-> Zero, vs |-> vs1]
        ELSE [value |-> ScoreToSimilarity(
                            ProviderScore(Join(resp, " "), "Job requirements: " \o text)),
              vs |-> vs1]

\* experience.get("job_title", "").lower() raises on a null title
calculate_position_relevance_raises(experience, job_context) ==
    \/ ~CanLower(Get(experience, "job_title", ""))
    \/ ~CanLower(Get(job_context.job_data, "job_title", ""))

TitleScore(exp_title, job_title) ==
    IF exp_title # "" /\ job_title # "" THEN SMRatio(exp_title, job_title) ELSE Zero

\* min((title_score * 0.6) + (resp_score * 0.4), 1.0)
PositionScore(title_score, resp) ==
    [value |-> RMin(RAdd(RMul(title_score, R(3, 5)), RMul(resp.value, R(2, 5))), One),
     vs |-> resp.vs]

calculate_position_relevance(experience, job_context, vs, up) ==
    PositionScore(TitleScore(Lower(Get(experience, "job_title", "")),
                             Lower(Get(job_context.job_data, "job_title", ""))),
                  calculate_responsibility_similarity(experience, job_context, vs, up))

\* the loop of _calculate_experience_relevance over the positions, in order
RECURSIVE RelevanceLoop(_, _, _, _, _)
\* relevance_score += position_relevance, then the next position
RelevanceNext(exps, job_context, sum, up, p) ==
    RelevanceLoop(Tail(exps), job_context, RAdd(sum, p.value), p.vs, up)

RelevanceLoop(exps, job_context, sum, vs, up) ==
    IF Len(exps) = 0 THEN [raised |-> FALSE, value |-> sum, vs |-> vs]
    ELSE IF calculate_position_relevance_raises(Head(exps), job_context)
    THEN [raised |-> TRUE, value |-> sum, vs |-> vs]
    ELSE RelevanceNext(exps, job_context, sum, up,
                       calculate_position_relevance(Head(exps), job_context, vs, up))

\* relevance_score / max(total_positions, 1)
RelevanceMean(loop, total_positions) ==
    [raised |-> loop.raised,
     value |-> RDiv(loop.value, RInt(IntMax(total_positions, 1))),
     vs |-> loop.vs]

calculate_experience_relevance(candidate, job_context, vs, up) ==
    IF Len(Get(candidate, "experience", <<>>)) = 0
    THEN [raised |-> FALSE, value |-> R(3, 10), vs |-> vs]
    ELSE RelevanceMean(RelevanceLoop(Get(candidate, "experience", <<>>), job_context,
                                     Zero, vs, up),
                       Len(Get(candidate, "experience", <<>>)))

YearsScore(candidate_years, min_required, max_preferred) ==
    LET has_max == Len(max_preferred) = 1 /\ max_preferred[1] # 0
    IN  IF candidate_years >= min_required
        THEN IF has_max /\ candidate_years <= max_preferred[1] THEN One
             ELSE IF has_max
             THEN RMax(R(4, 5),
                       RSub(One, RMul(RInt(candidate_years - max_preferred[1]), R(1, 20))))
             ELSE One
        ELSE RMax(Zero, R(candidate_years, IntMax(min_required, 1)))

\* (years_score * 0.6) + (relevance_score * 0.4)
ExperienceScore(years_score, rel) ==
    [raised |-> rel.raised,
     value |-> RAdd(RMul(years_score, R(3, 5)), RMul(rel.value, R(2, 5))),
     vs |-> rel.vs]

ExperienceCalculate(candidate, job_context, vs, up) ==
    ExperienceScore(YearsScore(OrZero(Get(candidate, "years_of_experience", Some(0))),
                               job_context.min_years_experience,
                               job_context.max_years_experience),
                    calculate_experience_relevance(candidate, job_context, vs, up))

\* --- Semantic -----------------------------------------------------------
SemanticCalculate(candidate, job_context, up) ==
    LET candidate_summary == Get(candidate, "summary", None)
        job_summary == job_context.job_summary
    IN  IF ~Truthy(candidate_summary) \/ job_summary = "" THEN R(1, 2)
        ELSE IF ~up THEN R(1, 2)
        ELSE ScoreToSimilarity(ProviderScore(candidate_summary, job_summary))

\* ------------------------------------------------------------------------
\* Scoring Orchestrator: _calculate_similarity_with_context
\* ------------------------------------------------------------------------
MetricNames ==
    {"skills", "experience", "education", "language", "certification", "semantic",
     "seniority"}

DefaultWeights ==
    [skills |-> R(30, 100), experience |-> R(25, 100), education |-> R(15, 100),
     language |-> R(3, 100), certification |-> R(2, 100), semantic |-> R(5, 100),
     seniority |-> R(2, 100)]

\* sum(weights.values())
RECURSIVE SumOver(_, _)
SumOver(w, keys) ==
    IF keys = {} THEN Zero
    ELSE LET k == CHOOSE x \in keys : TRUE
         IN  RAdd(w[k], SumOver(w, keys \ {k}))

SumValues(w) == SumOver(w, DOMAIN w)

EmptyDict == [k \in {} |-> Zero]

\* an "empty" score that is not all-zero
create_empty_score_half ==
    [overall_score |-> R(1, 2), skills_score |-> Zero, experience_score |-> Zero,
     education_score |-> Zero, semantic_similarity |-> Zero, seniority_match |-> Zero,
     detailed_breakdown |-> EmptyDict]

\* _create_empty_score()
create_empty_score ==
    [overall_score |-> Zero, skills_score |-> Zero, experience_score |-> Zero,
     education_score |-> Zero, semantic_similarity |-> Zero, seniority_match |-> Zero,
     detailed_breakdown |-> EmptyDict]

\* The seven calculate() calls in the order of the source; once the Experience
\* metric has raised the later ones are not evaluated.
MetricRecord(e, candidate, job_context, up) ==
    [raised |-> e.raised,
     vs |-> e.vs,
     skills |-> SkillsCalculate(candidate, job_context),
     experience |-> e.value,
     education |-> EducationCalculate(candidate, job_context),
     language |-> LanguageCalculate(candidate, job_context),
     certification |-> CertificationCalculate(candidate, job_context),
     semantic |-> SemanticCalculate(candidate, job_context, up),
     seniority |-> SeniorityCalculate(candidate, job_context)]

\* the order in which _calculate_similarity_with_context calls the metrics
MetricOrder ==
    <<"skills", "experience", "education", "language", "certification", "semantic",
      "seniority">>

\* the metrics a scoring call has invoked when it ends: all of them, or those up
\* to the Experience metric when its exception leaves the call
InvokedMetrics(m) == IF m.raised THEN SubSeq(MetricOrder, 1, 2) ELSE MetricOrder

MetricScores(candidate, job_context, up) ==
    MetricRecord(ExperienceCalculate(candidate, job_context, job_context.vector_store, up),
                 candidate, job_context, up)

\* weights["skills"] ... weights["certification"]: a missing key is a KeyError
WeightsKeyError(w) == ~(MetricNames \subseteq DOMAIN w)

WeightedSum(m, w) ==
    RAdd(RAdd(RAdd(RAdd(RAdd(RAdd(RMul(m.skills, w.skills),
                                  RMul(m.experience, w.experience)),
                             RMul(m.education, w.education)),
                        RMul(m.semantic, w.semantic)),
                   RMul(m.seniority, w.seniority)),
              RMul(m.language, w.language)),
         RMul(m.certification, w.certification))

\* candidate: <<>> (get_candidate_by_id returned None) or <<record>>
\* weights: <<>> (None) or <<map>>
\* result: kind "score" (a SimilarityScore is returned) or "raised"
\* how the call ends once the metrics have answered with m
Raised(error, m) ==
    [kind |-> "raised", error |-> error, score |-> create_empty_score, vs |-> m.vs]

\* the weighted combination and the SimilarityScore returned
CombineScores(m, w, job_context) ==
    IF m.raised THEN Raised("AttributeError", m)
    ELSE IF WeightsKeyError(w) THEN Raised("KeyError", m)
    ELSE IF SumValues(w) = Zero THEN Raised("ZeroDivisionError", m)
    ELSE [kind |-> "score", error |-> "",
          score |->
            [overall_score |-> Round4(RDiv(WeightedSum(m, w), SumValues(w))),
             skills_score |-> Round4(m.skills),
             experience_score |-> Round4(m.experience),
             education_score |-> Round4(m.education),
             semantic_similarity |-> Round4(m.semantic),
             seniority_match |-> Round4(m.seniority),
             detailed_breakdown |->
               [certification_score |-> Round4(m.certification),
                weights_used |-> w,
                job_id |-> job_context.job_id,
                cached |-> TRUE]],
          vs |-> m.vs]

calculate_similarity_with_context(candidate, job_context, weights, up) ==
    IF Len(candidate) = 0
    THEN [kind |-> "score", error |-> "", score |-> create_empty_score,
          vs |-> job_context.vector_store]
    ELSE CombineScores(MetricScores(candidate[1], job_context, up),
                       IF Len(weights) = 0 THEN DefaultWeights ELSE weights[1],
                       job_context)

\* ------------------------------------------------------------------------
\* The stored records (rows as CandidateService / JobService return them)
\* ------------------------------------------------------------------------
JobRowA ==
    [job_title |-> "Backend Engineer",
     job_summary |-> "Backend role",
     job_description |-> None,
     responsibilities |-> <<"Build APIs ">>,
     required_skills |->
        <<[category |-> "Technical", requirements |-> <<"Python", "SQL">>, level |-> None]>>,
     education_requirements |-> <<"Bachelor in Computer Science">>,
     certifications_required |-> <<"AWS Certified">>,
     languages_required |-> <<[name |-> "English", proficiency |-> "Fluent"]>>,
     min_years_experience |-> Some(3),
     max_years_experience |-> Some(10),
     seniority_level |-> "Senior"]

JobRowB ==
    [job_title |-> "Data Analyst",
     job_summary |-> None,
     job_description |-> None,
     responsibilities |-> <<>>,
     required_skills |-> <<>>,
     education_requirements |-> <<>>,
     certifications_required |-> <<>>,
     languages_required |-> <<>>,
     min_years_experience |-> NoInt,
     max_years_experience |-> NoInt,
     seniority_level |-> None]

JobRows == {JobRowA, JobRowB}

\* a record that carries the fields the extract_job_* methods read
JobRowFull ==
    [job_title |-> "Backend Engineer",
     job_summary |-> "Backend role",
     job_description |-> None,
     responsibilities |-> <<"Build APIs ">>,
     required_skills |-> <<>>,
     education_requirements |-> <<>>,
     required_languages |-> <<>>,
     required_certifications |-> <<>>,
     min_years_experience |-> Some(3),
     max_years_experience |-> NoInt,
     seniority_level |-> "Senior"]

CandidateRowGood ==
    [full_name |-> "Ada",
     years_of_experience |-> Some(5),
     summary |-> "backend developer",
     education |-> <<[degree |-> "BSc", field_of_study |-> "Computer Science"]>>,
     experience |-> <<[job_title |-> "Backend Engineer", responsibilities |-> <<"build apis">>]>>,
     skills |-> <<[category |-> "Technical", skills |-> <<"python", "Java">>]>>,
     certifications |-> <<[name |-> "AWS Certified "]>>,
     languages |-> <<[name |-> "English", proficiency |-> "Native"]>>]

\* an experience entry without a job title (Experience.job_title is Optional)
CandidateRowNullTitle ==
    [full_name |-> "Bob",
     years_of_experience |-> Some(2),
     summary |-> None,
     education |-> <<>>,
     experience |-> <<[job_title |-> "Data Analyst", responsibilities |-> <<"analyse data">>],
                      [job_title |-> None, responsibilities |-> <<>>]>>,
     skills |-> <<>>,
     certifications |-> <<>>,
     languages |-> <<>>]

CandidateRowAnalyst ==
    [full_name |-> "Cy",
     years_of_experience |-> NoInt,
     summary |-> "data person",
     education |-> <<[degree |-> None, field_of_study |-> None]>>,
     experience |-> <<[job_title |-> "Data Analyst", responsibilities |-> <<"clean data">>]>>,
     skills |-> <<[category |-> None, skills |-> <<"SQL">>]>>,
     certifications |-> <<[name |-> None]>>,
     languages |-> <<[name |-> "French", proficiency |-> None]>>]

\* CandidateService.get_candidate_by_id over the stored candidates: <<>> is None
get_candidate_by_id(candidate_id) ==
    CASE candidate_id = 1 -> <<CandidateRowGood>>
      [] candidate_id = 2 -> <<CandidateRowNullTitle>>
      [] candidate_id = 3 -> <<CandidateRowAnalyst>>
      [] OTHER -> <<>>

\* ------------------------------------------------------------------------
\* State of the engine and of its callers
\* ------------------------------------------------------------------------
VARIABLES
    jobDB,      \* job_descriptions table: id -> <<>> (no row) or <<row>>
    cache,      \* _job_context_cache: job id -> JobContext object
    heap,       \* the JobContext objects alive: object id -> its fields
    call,       \* per caller: position in the engine call and its locals
    hist,       \* history since the last eviction of each job id
    probe       \* one direct scoring of a candidate against a Job Context

vars == <<jobDB, cache, heap, call, hist, probe>>

StoredJobIds == 1..MaxJobId          \* ids AUTOINCREMENT hands out
JobArgIds == 0..MaxJobId             \* job_id values a caller passes
CandArgIds == 0..MaxCandId           \* candidate ids a caller passes
ObjIds == 1..MaxObjects
Callers == 1..NumCallers

EmptyCache == [k \in {} |-> 0]

Ops == {"preprocess_job", "calculate_similarity", "calculate_similarity_batch"}

\* the weight maps callers pass: None, a full map, a map naming one metric
FullWeights ==
    [skills |-> R(1, 1), experience |-> R(1, 1), education |-> R(1, 2),
     language |-> R(0, 1), certification |-> R(0, 1), semantic |-> R(1, 2),
     seniority |-> R(1, 1)]

PartialWeights == [skills |-> R(1, 1)]

WeightArgs == {<<>>, <<FullWeights>>, <<PartialWeights>>}

RECURSIVE SeqsUpTo(_, _)
SeqsUpTo(S, n) ==
    IF n = 0 THEN {<<>>}
    ELSE SeqsUpTo(S, n - 1) \cup
         {Append(q, x) : q \in {r \in SeqsUpTo(S, n - 1) : Len(r) = n - 1}, x \in S}

IdleCall ==
    [pc |-> "idle", op |-> "", job_id |-> 0, candidate_ids |-> <<>>, weights |-> <<>>,
     job |-> <<>>, job_context |-> 0, i |-> 1, results |-> <<>>, error |-> "",
     \* history of this call
     trace |-> <<>>, lookups |-> 0, was_cached |-> FALSE, cache_at_start |-> EmptyCache,
     obtained |-> 0]

NoProbe == [phase |-> "none"]

NoHist == [builds |-> 0, found |-> 0, lookups |-> 0, returned |-> {}]

Bump(n) == IF n < CountCap THEN n + 1 ELSE n

Init ==
    /\ jobDB = [j \in StoredJobIds |-> <<>>]
    /\ cache = EmptyCache
    /\ heap = EmptyCache
    /\ call = [t \in Callers |-> IdleCall]
    /\ hist = [j \in JobArgIds |-> NoHist]
    /\ probe = NoProbe

AllIdle == \A t \in Callers : call[t].pc = "idle"

\* a lookup that answers with a stand-in row when the job is not stored
get_job_standin(db, job_id) ==
    IF job_id \in DOMAIN db /\ db[job_id] # <<>> THEN db[job_id] ELSE <<JobRowB>>

\* JobService.get_job(job_id)
get_job(db, job_id) == IF job_id \in DOMAIN db THEN db[job_id] ELSE <<>>

\* a membership test that never finds the entry
CacheHitNever(c, job_id) == FALSE

\* a membership test that also compares the cached row with the stored one
CacheHitIfCurrent(c, job_id) ==
    /\ job_id \in DOMAIN c
    /\ jobDB[job_id] = <<heap[c[job_id]].job_data>>

\* `job_id in self._job_context_cache`
CacheHit(c, job_id) == job_id \in DOMAIN c

\* an insert that stores nothing
CacheInsertDropped(c, job_id, obj) == c

\* self._job_context_cache[job_id] = job_context
CacheInsert(c, job_id, obj) ==
    [k \in DOMAIN c \cup {job_id} |-> IF k = job_id THEN obj ELSE c[k]]

\* a clear_cache that removes nothing
ClearedCacheKeepsAll(c, job_id) == c

\* clear_cache(job_id): `if job_id:` pops that entry, otherwise clears all
ClearedCache(c, job_id) ==
    IF Len(job_id) = 1 /\ job_id[1] # 0
    THEN [k \in DOMAIN c \ {job_id[1]} |-> c[k]]
    ELSE EmptyCache

\* get_cached_job_ids(): list(self._job_context_cache.keys()), the keys of the
\* dict listed once each
get_cached_job_ids(c) ==
    CHOOSE ids \in SeqsUpTo(DOMAIN c, Cardinality(DOMAIN c)) :
        Len(ids) = Cardinality(DOMAIN c) /\ Range(ids) = DOMAIN c

\* results.append(score)
AppendResult(results, score) == Append(results, score)

\* objects still referenced by the cache, a caller or the history
Referenced(c, cl, h) ==
    {c[k] : k \in DOMAIN c}
        \cup {cl[t].job_context : t \in Callers}
        \cup UNION {h[j].returned : j \in JobArgIds}

Collect(hp, c, cl, h) == [o \in DOMAIN hp \cap Referenced(c, cl, h) |-> hp[o]]

FreshObject(hp) == CHOOSE o \in ObjIds \ DOMAIN hp : \A q \in ObjIds \ DOMAIN hp : o <= q

\* --- a caller enters preprocess_job / calculate_similarity(_batch) --------
Begin(t, op, job_id, candidate_ids, weights) ==
    /\ call[t].pc = "idle"
    /\ call' = [call EXCEPT ![t] =
                  [IdleCall EXCEPT !.pc = "check", !.op = op, !.job_id = job_id,
                                   !.candidate_ids = candidate_ids, !.weights = weights,
                                   !.was_cached = job_id \in DOMAIN cache,
                                   !.cache_at_start = cache]]
    /\ UNCHANGED <<jobDB, cache, heap, hist, probe>>

\* the calls a caller may start: job ids J, candidate ids C, weight maps W
BeginAny(t, J, C, W) ==
    \/ \E j \in J : Begin(t, "preprocess_job", j, <<>>, <<>>)
    \/ \E j \in J, c \in C, w \in W : Begin(t, "calculate_similarity", j, <<c>>, w)
    \/ \E j \in J, cs \in SeqsUpTo(C, MaxBatch), w \in W :
          Begin(t, "calculate_similarity_batch", j, cs, w)

\* where preprocess_job's caller continues
AfterPreprocess(op) == IF op = "preprocess_job" THEN "done" ELSE "score"

\* preprocess_job, line 35-36: the membership test and the cached return
CheckCache(t) ==
    /\ call[t].pc = "check"
    /\ IF CacheHit(cache, call[t].job_id)
       THEN /\ call' = [call EXCEPT ![t].pc = AfterPreprocess(call[t].op),
                                    ![t].job_context = cache[call[t].job_id],
                                    ![t].obtained = Bump(call[t].obtained)]
            /\ hist' = [hist EXCEPT ![call[t].job_id].returned =
                                        @ \cup {cache[call[t].job_id]}]
       ELSE /\ call' = [call EXCEPT ![t].pc = "lookup"]
            /\ hist' = hist
    /\ UNCHANGED <<jobDB, cache, heap, probe>>

\* preprocess_job, line 38-41: the job lookup; no record raises ValueError
LookupJob(t) ==
    /\ call[t].pc = "lookup"
    /\ LET job == get_job(jobDB, call[t].job_id)
       IN  /\ call' = [call EXCEPT ![t].job = job,
                                   ![t].lookups = Bump(call[t].lookups),
                                   ![t].pc = IF Len(job) = 0 THEN "raised" ELSE "build",
                                   ![t].error = IF Len(job) = 0 THEN "ValueError" ELSE ""]
           /\ hist' = [hist EXCEPT ![call[t].job_id].lookups = Bump(@),
                                   ![call[t].job_id].found =
                                       IF Len(job) = 0 THEN @ ELSE Bump(@)]
    /\ UNCHANGED <<jobDB, cache, heap, probe>>

\* preprocess_job, line 46-62: a new JobContext object
Build(t) ==
    /\ call[t].pc = "build"
    /\ IF BuildJobContextError(call[t].job[1]) # ""
       THEN /\ call' = [call EXCEPT ![t].pc = "raised",
                                    ![t].error = BuildJobContextError(call[t].job[1])]
            /\ UNCHANGED <<heap, hist>>
       ELSE /\ ObjIds \ DOMAIN heap # {}
            /\ LET o == FreshObject(heap)
               IN  /\ heap' = [k \in DOMAIN heap \cup {o} |->
                                  IF k = o
                                  THEN BuildJobContext(call[t].job_id, call[t].job[1])
                                  ELSE heap[k]]
                   /\ call' = [call EXCEPT ![t].job_context = o, ![t].pc = "insert"]
            /\ hist' = [hist EXCEPT ![call[t].job_id].builds = Bump(@)]
    /\ UNCHANGED <<jobDB, cache, probe>>

\* preprocess_job, line 65-68: the cache insert and the return
Insert(t) ==
    /\ call[t].pc = "insert"
    /\ cache' = CacheInsert(cache, call[t].job_id, call[t].job_context)
    /\ call' = [call EXCEPT ![t].pc = AfterPreprocess(call[t].op),
                            ![t].obtained = Bump(call[t].obtained)]
    /\ hist' = [hist EXCEPT ![call[t].job_id].returned = @ \cup {call[t].job_context}]
    /\ UNCHANGED <<jobDB, heap, probe>>

\* one iteration of the loop of calculate_similarity_batch (the single call of
\* calculate_similarity): candidate lookup, the metrics, the combination
\* Ups: whether the embedding provider answers during this iteration
ScoreNextWith(t, Ups) ==
    /\ call[t].pc = "score"
    /\ call[t].i <= Len(call[t].candidate_ids)
    /\ \E up \in Ups :
         \E out \in {calculate_similarity_with_context(
                        get_candidate_by_id(call[t].candidate_ids[call[t].i]),
                        heap[call[t].job_context], call[t].weights, up)} :
             /\ heap' = [heap EXCEPT ![call[t].job_context].vector_store = out.vs]
             /\ call' = [call EXCEPT
                           ![t].trace = Append(@, [candidate_id |-> call[t].candidate_ids[call[t].i],
                                                   ctx |-> call[t].job_context,
                                                   kind |-> out.kind]),
                           ![t].results = IF out.kind = "score"
                                          THEN AppendResult(@, out.score) ELSE @,
                           ![t].i = IF out.kind = "score" THEN @ + 1 ELSE @,
                           ![t].pc = IF out.kind = "score" THEN "score" ELSE "raised",
                           ![t].error = out.error]
    /\ UNCHANGED <<jobDB, cache, hist, probe>>

ScoreNext(t) == ScoreNextWith(t, BOOLEAN)

\* the loop is over: results is returned
Finish(t) ==
    /\ call[t].pc = "score"
    /\ call[t].i > Len(call[t].candidate_ids)
    /\ call' = [call EXCEPT ![t].pc = "done"]
    /\ UNCHANGED <<jobDB, cache, heap, hist, probe>>

\* the caller has its result or its exception; its locals die
Return(t) ==
    /\ call[t].pc \in {"done", "raised"}
    /\ LET cl == [call EXCEPT ![t] = IdleCall]
       IN  /\ call' = cl
           /\ heap' = Collect(heap, cache, cl, hist)
    /\ UNCHANGED <<jobDB, cache, hist, probe>>

\* clear_cache(job_id): job_id is <<>> (None) or <<id>>
ClearCache(job_id) ==
    /\ cache' = ClearedCache(cache, job_id)
    /\ LET evicted == DOMAIN cache \ DOMAIN ClearedCache(cache, job_id)
           target  == IF Len(job_id) = 1 /\ job_id[1] # 0 THEN {job_id[1]} ELSE JobArgIds
           h == [j \in JobArgIds |-> IF j \in evicted \cup target THEN NoHist ELSE hist[j]]
       IN  /\ hist' = h
           /\ heap' = Collect(heap, ClearedCache(cache, job_id), call, h)
    /\ UNCHANGED <<jobDB, call, probe>>

ClearCacheAny == \E a \in {<<>>} \cup {<<j>> : j \in JobArgIds} : ClearCache(a)

\* the job_descriptions table changes (JobService.create_job / update_job / delete_job)
PutJob(j, row) ==
    /\ jobDB[j] # <<row>>
    /\ jobDB' = [jobDB EXCEPT ![j] = <<row>>]
    /\ UNCHANGED <<cache, heap, call, hist, probe>>

DeleteJob(j) ==
    /\ jobDB[j] # <<>>
    /\ jobDB' = [jobDB EXCEPT ![j] = <<>>]
    /\ UNCHANGED <<cache, heap, call, hist, probe>>

StoreChanges ==
    \/ \E j \in StoredJobIds, row \in JobRows : PutJob(j, row)
    \/ \E j \in StoredJobIds : DeleteJob(j)

Step(t) ==
    \/ CheckCache(t)
    \/ LookupJob(t)
    \/ Build(t)
    \/ Insert(t)
    \/ ScoreNext(t)
    \/ Finish(t)
    \/ Return(t)

\* One engine used sequentially: a call runs to its end before the next call,
\* a clear_cache or a change of the stored jobs.  The cache's life: every job id,
\* a stored candidate, the default weights.
Next ==
    \/ AllIdle /\ BeginAny(1, StoredJobIds, {1}, {<<>>})
    \/ AllIdle /\ ClearCacheAny
    \/ AllIdle /\ StoreChanges
    \/ Step(1)

Spec == Init /\ [][Next]_vars

\* Batch ranking over a store that holds both jobs: every candidate id, batch and
\* weight map, one call after the other.
InitBatch ==
    /\ jobDB = [j \in StoredJobIds |-> IF j = 1 THEN <<JobRowA>> ELSE <<JobRowB>>]
    /\ cache = EmptyCache
    /\ heap = EmptyCache
    /\ call = [t \in Callers |-> IdleCall]
    /\ hist = [j \in JobArgIds |-> NoHist]
    /\ probe = NoProbe

NextBatch ==
    \/ AllIdle /\ BeginAny(1, JobArgIds, CandArgIds, WeightArgs)
    \/ Step(1)

SpecBatch == InitBatch /\ [][NextBatch]_vars

\* Batch ranking with an embedding provider that answers every request.
NextDet ==
    \/ AllIdle /\ BeginAny(1, JobArgIds, CandArgIds, {<<>>})
    \/ CheckCache(1)
    \/ LookupJob(1)
    \/ Build(1)
    \/ Insert(1)
    \/ ScoreNextWith(1, {TRUE})
    \/ Finish(1)
    \/ Return(1)

SpecDet == InitBatch /\ [][NextDet]_vars

\* preprocess_job on job records with absent and null fields: the stored record of
\* job 1 is any of BuildRecords, and job 1 is preprocessed again and again.
Without(d, k) == [x \in DOMAIN d \ {k} |-> d[x]]

BuildRecords ==
    {[r EXCEPT !.required_skills = sk, !.required_languages = la,
               !.required_certifications = ce, !.seniority_level = se,
               !.min_years_experience = mn] :
        r \in {JobRowFull, [JobRowFull EXCEPT !.job_summary = None],
               Without(JobRowFull, "job_summary")},
        sk \in {<<>>,
                <<[category |-> "Technical", requirements |-> <<"Python">>]>>,
                <<[category |-> "Technical"], [name |-> None], [name |-> "SQL"]>>,
                <<[category |-> "Technical", requirements |-> NullList]>>},
        la \in {<<>>,
                <<[language |-> "English", level |-> "Fluent"]>>,
                <<[language |-> "English"], [level |-> "Fluent"]>>,
                <<[language |-> "English", level |-> None]>>,
                <<[language |-> None, level |-> "Fluent"]>>},
        ce \in {<<>>,
                <<[name |-> "AWS Certified "]>>,
                <<[name |-> None], [name |-> None, certification |-> "PMP"]>>},
        se \in {"Senior", None},
        mn \in {Some(3), NoInt}}

InitBuild ==
    /\ jobDB \in {[j \in StoredJobIds |-> IF j = 1 THEN <<r>> ELSE <<>>] :
                     r \in BuildRecords}
    /\ cache = EmptyCache
    /\ heap = EmptyCache
    /\ call = [t \in Callers |-> IdleCall]
    /\ hist = [j \in JobArgIds |-> NoHist]
    /\ probe = NoProbe

NextBuild ==
    \/ AllIdle /\ Begin(1, "preprocess_job", 1, <<>>, <<>>)
    \/ CheckCache(1)
    \/ LookupJob(1)
    \/ Build(1)
    \/ Insert(1)
    \/ Return(1)

SpecBuild == InitBuild /\ [][NextBuild]_vars

\* The same engine shared by concurrent callers (threads): their steps interleave.
\* Each caller warms the cache of job 1 or ranks candidate 1 against it.
BeginConc(t) ==
    \/ Begin(t, "preprocess_job", 1, <<>>, <<>>)
    \/ Begin(t, "calculate_similarity_batch", 1, <<1>>, <<>>)

NextConc ==
    \/ \E t \in Callers : BeginConc(t)
    \/ \E t \in Callers : Step(t)

SpecConc == InitBatch /\ [][NextConc]_vars

\* ------------------------------------------------------------------------
\* Direct scoring: _calculate_similarity_with_context applied to one found
\* candidate and one Job Context drawn from bounded sets
\* ------------------------------------------------------------------------
\* a candidate whose languages carry the key the Language metric reads
CandidateRowPolyglot ==
    [full_name |-> "Di",
     years_of_experience |-> Some(0),
     summary |-> "",
     education |-> <<[degree |-> "Bachelor in Computer Science", field_of_study |-> None]>>,
     experience |-> <<>>,
     skills |-> <<[category |-> "Technical", skills |-> <<"Python", "SQL">>]>>,
     certifications |-> <<[name |-> "aws certifed"], [name |-> "PMP"]>>,
     languages |-> <<[language |-> "Englsh", proficiency |-> "intermediate"],
                     [language |-> "french", proficiency |-> "native"]>>]

YearOptions == {NoInt} \cup {Some(y) : y \in 0..MaxYears}

ProbeCandidates ==
    {[c EXCEPT !.years_of_experience = y] :
        c \in {CandidateRowGood, CandidateRowNullTitle, CandidateRowAnalyst,
               CandidateRowPolyglot},
        y \in YearOptions}

\* Job Contexts: those of the stored rows, and one with every kind of requirement
JobContextFull ==
    [BuildJobContext(1, JobRowA) EXCEPT
        !.required_languages = <<[language |-> "english", required_level |-> "fluent"],
                                 [language |-> "french", required_level |-> "basic"]>>,
        !.required_certifications = <<"aws certified", "pmp", "pmp">>]

ProbeContexts ==
    {[x EXCEPT !.seniority_level = s, !.min_years_experience = mn,
               !.max_years_experience = mx, !.vector_store = v] :
        x \in {JobContextFull, BuildJobContext(2, JobRowB)},
        s \in {"", "Senior", "junior", "Mid-Level", "executive", "staff"},
        mn \in {0, 10},
        mx \in {NoInt, Some(4)},
        v \in {"None", "empty", "indexed"}}

InitScore ==
    /\ jobDB = [j \in StoredJobIds |-> <<>>]
    /\ cache = EmptyCache
    /\ heap = EmptyCache
    /\ call = [t \in Callers |-> IdleCall]
    /\ hist = [j \in JobArgIds |-> NoHist]
    /\ probe \in {[phase |-> "input", candidate |-> c, job_context |-> x,
                   weights |-> w, up |-> u] :
                     c \in ProbeCandidates, x \in ProbeContexts,
                     w \in WeightArgs, u \in BOOLEAN}

Score ==
    /\ probe.phase = "input"
    /\ probe' = [phase |-> "scored", candidate |-> probe.candidate,
                 job_context |-> probe.job_context, weights |-> probe.weights,
                 up |-> probe.up,
                 metrics |-> MetricScores(probe.candidate, probe.job_context, probe.up),
                 invoked |-> InvokedMetrics(MetricScores(probe.candidate,
                                                         probe.job_context, probe.up)),
                 out |-> calculate_similarity_with_context(
                            <<probe.candidate>>, probe.job_context, probe.weights, probe.up)]
    /\ UNCHANGED <<jobDB, cache, heap, call, hist>>

NextScore == Score

SpecScore == InitScore /\ [][NextScore]_vars

\* ------------------------------------------------------------------------
\* The matching-candidates ranking of the API: get_matching_candidates_for_job
\* after calculate_similarity_batch has returned similarity_results
\* ------------------------------------------------------------------------
\* the loop over enumerate(similarity_results): the entries with
\* overall_score >= min_score, each with the candidate of its position
RECURSIVE FilterMatches(_, _, _)
FilterMatches(results, min_score, i) ==
    IF i > Len(results) THEN <<>>
    ELSE (IF RGe(results[i], min_score)
          THEN <<[candidate_id |-> i, overall_score |-> results[i]]>>
          ELSE <<>>)
         \o FilterMatches(results, min_score, i + 1)

\* where a stable descending sort puts x among the sorted entries: after every
\* entry that does not score less
RECURSIVE InsertDescending(_, _)
InsertDescending(sorted, x) ==
    IF Len(sorted) = 0 THEN <<x>>
    ELSE IF RGe(Head(sorted).overall_score, x.overall_score)
    THEN <<Head(sorted)>> \o InsertDescending(Tail(sorted), x)
    ELSE <<x>> \o sorted

\* a descending sort that puts x before the entries of equal score
RECURSIVE InsertDescendingFirst(_, _)
InsertDescendingFirst(sorted, x) ==
    IF Len(sorted) = 0 THEN <<x>>
    ELSE IF RGt(Head(sorted).overall_score, x.overall_score)
    THEN <<Head(sorted)>> \o InsertDescendingFirst(Tail(sorted), x)
    ELSE <<x>> \o sorted

RECURSIVE SortDescendingFrom(_, _)
SortDescendingFrom(sorted, rest) ==
    IF Len(rest) = 0 THEN sorted
    ELSE SortDescendingFrom(InsertDescending(sorted, Head(rest)), Tail(rest))

RECURSIVE SortTiesReversedFrom(_, _)
SortTiesReversedFrom(sorted, rest) ==
    IF Len(rest) = 0 THEN sorted
    ELSE SortTiesReversedFrom(InsertDescendingFirst(sorted, Head(rest)), Tail(rest))

\* a descending sort that reverses the entries of equal score
SortTiesReversed(matches) == SortTiesReversedFrom(<<>>, matches)

\* matching_candidates.sort(key=lambda x: x.overall_score, reverse=True):
\* list.sort is stable, also with reverse=True
SortDescending(matches) == SortDescendingFrom(<<>>, matches)

\* matching_candidates[:limit] for limit >= 1
Truncate(matches, limit) ==
    SubSeq(matches, 1, IF limit < Len(matches) THEN limit ELSE Len(matches))

RankMatches(results, min_score, limit) ==
    Truncate(SortDescending(FilterMatches(results, min_score, 1)), limit)

\* the overall scores the batch returned, min_score and limit of the request
RankScores == {Zero, R(1, 4), R(1, 2), One}

RankThresholds == {Zero, R(1, 2), One}

InitRank ==
    /\ jobDB = [j \in StoredJobIds |-> <<>>]
    /\ cache = EmptyCache
    /\ heap = EmptyCache
    /\ call = [t \in Callers |-> IdleCall]
    /\ hist = [j \in JobArgIds |-> NoHist]
    /\ probe \in {[phase |-> "results", similarity_results |-> r, min_score |-> m,
                   limit |-> l] :
                     r \in SeqsUpTo(RankScores, MaxPool), m \in RankThresholds,
                     l \in 1..MaxLimit}

Rank ==
    /\ probe.phase = "results"
    /\ probe' = [phase |-> "ranked", similarity_results |-> probe.similarity_results,
                 min_score |-> probe.min_score, limit |-> probe.limit,
                 matching_candidates |->
                     RankMatches(probe.similarity_results, probe.min_score, probe.limit)]
    /\ UNCHANGED <<jobDB, cache, heap, call, hist>>

NextRank == Rank

SpecRank == InitRank /\ [][NextRank]_vars

\* ------------------------------------------------------------------------
\* Single metrics called directly: calculate(candidate, job_context) of the
\* Skills and Seniority metrics over bounded candidates and Job Contexts
\* ------------------------------------------------------------------------
SkillNames == {"Python", "python", "Java"}

SkillLists == SeqsUpTo(SkillNames, MaxSkills)

CandidateWithSkills(cs) ==
    [CandidateRowGood EXCEPT !.skills = <<[category |-> "Technical", skills |-> cs]>>]

SkillsInputs ==
    {[phase |-> "metric_input", candidate |-> CandidateWithSkills(cs),
      job_context |-> [JobContextFull EXCEPT !.required_skills = rs]] :
        cs \in SkillLists, rs \in SkillLists}

JobSeniorityLabels ==
    {"", "Senior", "junior", "Mid-Level", "executive", "staff", "entry-level", "lead",
     "principal"}

SeniorityInputs ==
    {[phase |-> "metric_input",
      candidate |-> [CandidateRowGood EXCEPT !.years_of_experience = y],
      job_context |-> [JobContextFull EXCEPT !.seniority_level = s,
                                             !.min_years_experience = mn]] :
        y \in YearOptions, s \in JobSeniorityLabels, mn \in {0, 5, 10}}

CandidateLanguageEntries ==
    {[language |-> "English", proficiency |-> "native"],
     [language |-> "Englsh", proficiency |-> "intermediate"],
     [language |-> "french", proficiency |-> "Fluent"],
     [language |-> "english", proficiency |-> ""],
     [str |-> "French"]}

RequiredLanguageEntries ==
    {[language |-> "english", required_level |-> "fluent"],
     [language |-> "english", required_level |-> "advanced"],
     [language |-> "french", required_level |-> "native"],
     [language |-> "spanish", required_level |-> "basic"]}

LanguageInputs ==
    {[phase |-> "metric_input",
      candidate |-> [CandidateRowGood EXCEPT !.languages = cl],
      job_context |-> [JobContextFull EXCEPT !.required_languages = rl]] :
        cl \in SeqsUpTo(CandidateLanguageEntries, MaxLanguages),
        rl \in SeqsUpTo(RequiredLanguageEntries, MaxLanguages)}

\* the stored candidates against a job with every kind of requirement and a job
\* with none
StoredInputs ==
    {[phase |-> "metric_input", candidate |-> c, job_context |-> x] :
        c \in {CandidateRowGood, CandidateRowNullTitle, CandidateRowAnalyst},
        x \in {JobContextFull, BuildJobContext(2, JobRowB)}}

ExperienceInputs ==
    {[phase |-> "metric_input",
      candidate |-> [c EXCEPT !.years_of_experience = y],
      job_context |-> [JobContextFull EXCEPT !.min_years_experience = mn,
                                             !.max_years_experience = mx]] :
        c \in {CandidateRowGood, CandidateRowNullTitle,
               [CandidateRowGood EXCEPT !.experience = <<>>]},
        y \in YearOptions, mn \in {0, 5}, mx \in {NoInt, Some(0), Some(4)}}

MetricInputs ==
    SkillsInputs \cup SeniorityInputs \cup LanguageInputs \cup StoredInputs
        \cup ExperienceInputs

InitMetric ==
    /\ jobDB = [j \in StoredJobIds |-> <<>>]
    /\ cache = EmptyCache
    /\ heap = EmptyCache
    /\ call = [t \in Callers |-> IdleCall]
    /\ hist = [j \in JobArgIds |-> NoHist]
    /\ probe \in MetricInputs

MetricReturns(metric, value) ==
    /\ probe.phase = "metric_input"
    /\ probe' = [phase |-> metric, candidate |-> probe.candidate,
                 job_context |-> probe.job_context, value |-> value]
    /\ UNCHANGED <<jobDB, cache, heap, call, hist>>

SkillsCall == MetricReturns("skills", SkillsCalculate(probe.candidate, probe.job_context))

SeniorityCall ==
    MetricReturns("seniority", SeniorityCalculate(probe.candidate, probe.job_context))

LanguageCall ==
    MetricReturns("language", LanguageCalculate(probe.candidate, probe.job_context))

EducationCall ==
    MetricReturns("education", EducationCalculate(probe.candidate, probe.job_context))

CertificationCall ==
    MetricReturns("certification",
                  CertificationCalculate(probe.candidate, probe.job_context))

\* ExperienceSimilarityMetric.calculate: its two components and what it returns
\* (raised: the exception of a position without a title leaves the call)
ExperienceCall ==
    /\ probe.phase = "metric_input"
    /\ \E up \in BOOLEAN :
         \E out \in {ExperienceCalculate(probe.candidate, probe.job_context,
                                         probe.job_context.vector_store, up)} :
             probe' = [phase |-> "experience", candidate |-> probe.candidate,
                       job_context |-> probe.job_context,
                       years_score |->
                           YearsScore(OrZero(Get(probe.candidate, "years_of_experience",
                                                 Some(0))),
                                      probe.job_context.min_years_experience,
                                      probe.job_context.max_years_experience),
                       relevance |->
                           calculate_experience_relevance(
                               probe.candidate, probe.job_context,
                               probe.job_context.vector_store, up).value,
                       raised |-> out.raised,
                       value |-> out.value]
    /\ UNCHANGED <<jobDB, cache, heap, call, hist>>

NextMetric ==
    \/ ExperienceCall
    \/ SkillsCall
    \/ SeniorityCall
    \/ LanguageCall
    \/ EducationCall
    \/ CertificationCall

SpecMetric == InitMetric /\ [][NextMetric]_vars

\* ------------------------------------------------------------------------
\* File batching (src/src/frontend/src/backend/utils.py)
\* ------------------------------------------------------------------------
\* A file is [name, supported, size, readable]: `supported` is what
\* get_file_type_extension says of its suffix, `size` is Some(bytes) or NoInt
\* when os.path.getsize raises, `readable` tells whether open() succeeds.
MaxFiles == 3
MB == 1024 * 1024
HalfMB == MB \div 2

FileOf(name, supported, size, readable) ==
    [name |-> name, supported |-> supported, size |-> size, readable |-> readable]

get_file_size(file_path) == file_path.size

\* max_size_mb * 1024 * 1024 if max_size_mb else float("inf"); NoInt is inf.
MaxSizeBytes(max_size_mb) ==
    IF max_size_mb = NoInt \/ max_size_mb = Some(0) THEN NoInt
    ELSE Some(max_size_mb[1] * 1024 * 1024)

ExceedsMaxSize(total, max_size_bytes) ==
    max_size_bytes # NoInt /\ total > max_size_bytes[1]

BatchIsFullOffByOne(current_batch, current_batch_size_bytes, file_size, batch_size, max_size_bytes) ==
    \/ Len(current_batch) > batch_size
    \/ ExceedsMaxSize(current_batch_size_bytes + file_size, max_size_bytes)

BatchIsFull(current_batch, current_batch_size_bytes, file_size, batch_size, max_size_bytes) ==
    \/ Len(current_batch) >= batch_size
    \/ ExceedsMaxSize(current_batch_size_bytes + file_size, max_size_bytes)

RECURSIVE CreateBatchesLoop(_, _, _, _, _, _, _)
CreateBatchesLoop(file_paths, i, batch_size, max_size_bytes, batches, current_batch, current_batch_size_bytes) ==
    IF i > Len(file_paths)
    THEN IF current_batch # <<>> THEN Append(batches, current_batch) ELSE batches
    ELSE IF get_file_size(file_paths[i]) = NoInt
    THEN CreateBatchesLoop(file_paths, i + 1, batch_size, max_size_bytes,
                           batches, current_batch, current_batch_size_bytes)
    ELSE IF /\ BatchIsFull(current_batch, current_batch_size_bytes,
                           get_file_size(file_paths[i])[1], batch_size, max_size_bytes)
            /\ current_batch # <<>>
    THEN CreateBatchesLoop(file_paths, i + 1, batch_size, max_size_bytes,
                           Append(batches, current_batch), <<file_paths[i]>>,
                           get_file_size(file_paths[i])[1])
    ELSE CreateBatchesLoop(file_paths, i + 1, batch_size, max_size_bytes,
                           batches, Append(current_batch, file_paths[i]),
                           current_batch_size_bytes + get_file_size(file_paths[i])[1])

create_batches(file_paths, batch_size, max_size_mb) ==
    IF file_paths = <<>> THEN <<>>
    ELSE CreateBatchesLoop(file_paths, 1, batch_size, MaxSizeBytes(max_size_mb),
                           <<>>, <<>>, 0)

\* --- create_batches called directly ---------------------------------------
MaxBatchSize == 2
MaxSizeOptions == {NoInt, Some(1), Some(2)}
FileSizeOptions == {NoInt, Some(HalfMB), Some(MB), Some(3 * MB)}

RECURSIVE FileLists(_, _)
FileLists(n, Attrs) ==
    IF n = 0 THEN {<<>>}
    ELSE LET shorter == FileLists(n - 1, Attrs)
         IN  shorter \cup
             {Append(fs, FileOf(Len(fs) + 1, a.supported, a.size, a.readable)) :
                  fs \in {s \in shorter : Len(s) = n - 1}, a \in Attrs}

SizedFileAttrs ==
    {[supported |-> TRUE, size |-> s, readable |-> TRUE] : s \in FileSizeOptions}

CreateInputs ==
    {[phase |-> "batches_input", file_paths |-> fs, batch_size |-> b,
      max_size_mb |-> m] :
         fs \in FileLists(MaxFiles, SizedFileAttrs), b \in 1..MaxBatchSize,
         m \in MaxSizeOptions}

InitCreate ==
    /\ jobDB = [j \in StoredJobIds |-> <<>>]
    /\ cache = EmptyCache
    /\ heap = EmptyCache
    /\ call = [t \in Callers |-> IdleCall]
    /\ hist = [j \in JobArgIds |-> NoHist]
    /\ probe \in CreateInputs

CreateBatchesCall ==
    /\ probe.phase = "batches_input"
    /\ probe' = [phase |-> "batches", file_paths |-> probe.file_paths,
                 batch_size |-> probe.batch_size, max_size_mb |-> probe.max_size_mb,
                 batches |-> create_batches(probe.file_paths, probe.batch_size,
                                            probe.max_size_mb)]
    /\ UNCHANGED <<jobDB, cache, heap, call, hist>>

NextCreate ==
    \/ CreateBatchesCall

SpecCreate == InitCreate /\ [][NextCreate]_vars

\* ------------------------------------------------------------------------
\* Batch processing of files (src/src/batch_processor.py, file_parser.py)
\* ------------------------------------------------------------------------
\* settings (src/src/config.py)
BATCH_SIZE_CV == 3
MAX_FILE_SIZE_MB == 20
BATCH_RETRY_ATTEMPTS == 3

Supported(file_path) == file_path.supported

filter_supported_files(file_paths) == SelectSeq(file_paths, Supported)

\* create_file_info sizes the file and opens it; either may raise.
create_file_info_raises(file_path) ==
    get_file_size(file_path) = NoInt \/ ~file_path.readable

\* What the structured LLM call does for a batch of n files: it raises, or it
\* returns a `cvs` list whose i-th entry is a CV (TRUE) or None (FALSE) and
\* which may be shorter than the batch.
LLMOutcomes(n) ==
    {[raises |-> TRUE, cvs |-> <<>>]} \cup
    {[raises |-> FALSE, cvs |-> c] : c \in SeqsUpTo(BOOLEAN, n)}

create_empty_batch_result(total_files) ==
    [total_files |-> total_files, successful_parses |-> 0,
     failed_parses |-> total_files, results |-> <<>>]

CountSuccess(results) ==
    Cardinality({i \in DOMAIN results : results[i].success})

\* The paths are pathlib.Path objects (filter_supported_files reads .suffix):
\* when create_file_info raises, the handler's cv_path.split("/") raises
\* AttributeError in its turn, which the outer handler turns into the empty
\* result for the whole batch.
PreparationFails(cv_paths) ==
    \E i \in DOMAIN cv_paths : create_file_info_raises(cv_paths[i])

LLMResults(cv_paths, llm) ==
    [i \in DOMAIN cv_paths |->
        [file_name |-> cv_paths[i].name,
         success |-> ~llm.raises /\ i <= Len(llm.cvs) /\ llm.cvs[i]]]

parse_cv_batch(cv_paths, llm) ==
    IF PreparationFails(cv_paths) \/ cv_paths = <<>>
    THEN create_empty_batch_result(Len(cv_paths))
    ELSE [total_files |-> Len(cv_paths),
          successful_parses |-> CountSuccess(LLMResults(cv_paths, llm)),
          failed_parses |-> Len(LLMResults(cv_paths, llm))
                                - CountSuccess(LLMResults(cv_paths, llm)),
          results |-> LLMResults(cv_paths, llm)]

\* Every exception of the preparation and of the LLM call is caught inside
\* parse_cv_batch (lines 53, 146, 159); what is left outside the try reads the
\* clock, logs and builds the result.
parse_cv_batch_raises(cv_paths, llm) == FALSE

\* The attempt did not parse the batch: the LLM call errored or the batch
\* could not be prepared.
AttemptFailed(cv_paths, llm) == llm.raises \/ PreparationFails(cv_paths)

FileAttrs ==
    {[supported |-> s, size |-> z, readable |-> r] :
         s \in BOOLEAN, z \in {NoInt, Some(MB)}, r \in BOOLEAN}

BatchSizeArgs == {NoInt} \cup {Some(b) : b \in 1..MaxBatchSize}

FilesInputs ==
    {[phase |-> "files_input", file_paths |-> fs, batch_size |-> b] :
         fs \in FileLists(MaxFiles, FileAttrs), b \in BatchSizeArgs}

InitFiles ==
    /\ jobDB = [j \in StoredJobIds |-> <<>>]
    /\ cache = EmptyCache
    /\ heap = EmptyCache
    /\ call = [t \in Callers |-> IdleCall]
    /\ hist = [j \in JobArgIds |-> NoHist]
    /\ probe \in FilesInputs

create_empty_stats ==
    [total_batches |-> 0, total_files |-> 0, total_successful |-> 0,
     total_failed |-> 0]

\* process_cv_files up to the loop over the batches.
ProcessFilesBegin ==
    /\ probe.phase = "files_input"
    /\ \E supported_files \in {filter_supported_files(probe.file_paths)} :
         IF supported_files = <<>>
         THEN probe' = [phase |-> "returned", file_paths |-> probe.file_paths,
                        supported_files |-> supported_files, batches |-> <<>>,
                        all_batch_results |-> <<>>, stats |-> create_empty_stats]
         ELSE probe' = [phase |-> "batch", file_paths |-> probe.file_paths,
                        supported_files |-> supported_files,
                        batches |-> create_batches(
                            supported_files,
                            IF Truthy(probe.batch_size) THEN probe.batch_size[1]
                            ELSE BATCH_SIZE_CV,
                            Some(MAX_FILE_SIZE_MB)),
                        i |-> 1, attempt |-> 0, all_batch_results |-> <<>>,
                        total_successful |-> 0, total_failed |-> 0]
    /\ UNCHANGED <<jobDB, cache, heap, call, hist>>

\* _process_cv_batch_with_retry returns batch_result to the loop of
\* process_cv_files, which adds it to the totals and goes to the next batch.
\* `attempts` and `failed` remember how the result came about.
BatchReturns(batch_result, failed) ==
    probe' = [probe EXCEPT
                 !.all_batch_results =
                     Append(@, [batch_result |-> batch_result,
                                attempts |-> probe.attempt + 1,
                                failed |-> failed]),
                 !.total_successful = @ + batch_result.successful_parses,
                 !.total_failed = @ + batch_result.failed_parses,
                 !.i = @ + 1,
                 !.attempt = 0]

\* One iteration of the loop of _process_cv_batch_with_retry on the current
\* batch: parse_cv_batch is called; its result is returned, or its exception
\* is caught and the next iteration follows, the empty result being returned
\* after the last one.
RetryAttempt ==
    /\ probe.phase = "batch"
    /\ probe.i <= Len(probe.batches)
    /\ probe.attempt < BATCH_RETRY_ATTEMPTS
    /\ \E llm \in LLMOutcomes(Len(probe.batches[probe.i])) :
         IF ~parse_cv_batch_raises(probe.batches[probe.i], llm)
         THEN BatchReturns(parse_cv_batch(probe.batches[probe.i], llm),
                           AttemptFailed(probe.batches[probe.i], llm))
         ELSE IF probe.attempt + 1 < BATCH_RETRY_ATTEMPTS
         THEN probe' = [probe EXCEPT !.attempt = @ + 1]
         ELSE BatchReturns(create_empty_batch_result(Len(probe.batches[probe.i])),
                           TRUE)
    /\ UNCHANGED <<jobDB, cache, heap, call, hist>>

\* process_cv_files after the loop: the statistics of the session.
ProcessFilesFinish ==
    /\ probe.phase = "batch"
    /\ probe.i > Len(probe.batches)
    /\ probe' = [phase |-> "returned", file_paths |-> probe.file_paths,
                 supported_files |-> probe.supported_files,
                 batches |-> probe.batches,
                 all_batch_results |-> probe.all_batch_results,
                 stats |-> [total_batches |-> Len(probe.batches),
                            total_files |-> Len(probe.supported_files),
                            total_successful |-> probe.total_successful,
                            total_failed |-> probe.total_failed]]
    /\ UNCHANGED <<jobDB, cache, heap, call, hist>>

NextFiles ==
    \/ ProcessFilesBegin
    \/ RetryAttempt
    \/ ProcessFilesFinish

SpecFiles == InitFiles /\ [][NextFiles]_vars

\* ------------------------------------------------------------------------
\* Properties
\* ------------------------------------------------------------------------
JobMissing(j) == j \notin DOMAIN jobDB \/ jobDB[j] = <<>>

HasContext(t) == call[t].pc \in {"score", "done"}

IsBatch(t) == call[t].op = "calculate_similarity_batch"

VectorStoreStates == {"None", "empty", "indexed"}

\* what scoring candidate_id against the object x can produce, whatever the
\* state of x's lazy index and of the embedding provider
Outcomes(candidate_id, x, weights) ==
    {calculate_similarity_with_context(get_candidate_by_id(candidate_id),
                                       [x EXCEPT !.vector_store = v], weights, up) :
        v \in VectorStoreStates, up \in BOOLEAN}

AllZero(score) ==
    /\ score.overall_score = <<0, 1>>
    /\ score.skills_score = <<0, 1>>
    /\ score.experience_score = <<0, 1>>
    /\ score.education_score = <<0, 1>>
    /\ score.semantic_similarity = <<0, 1>>
    /\ score.seniority_match = <<0, 1>>

C2_OneBuildConcurrently ==
    /\ \A j \in JobArgIds : hist[j].builds <= 1
    /\ \A t, u \in Callers :
          (HasContext(t) /\ HasContext(u) /\ call[t].job_id = call[u].job_id)
              => call[t].job_context = call[u].job_context

\* C3: clear_cache(j), for every integer j, removes the entry of j and nothing
\* else; every other entry stays, bound to the same object.
C3_ClearOnlyThatEntry ==
    [][\A j \in JobArgIds :
          ClearCache(<<j>>) =>
              /\ DOMAIN cache' = DOMAIN cache \ {j}
              /\ \A k \in DOMAIN cache' : cache'[k] = cache[k]]_vars

\* C4: a call whose job lookup finds no record ends with an error, having looked
\* up and scored no candidate and left the cache as it found it, with no entry
\* for the job; a call made when the record exists goes on, and once past the
\* insert the cache holds the context it built.
C4_MissingJobFailsCleanly ==
    \A t \in Callers :
        (call[t].pc \notin {"idle", "check", "lookup"} /\ ~call[t].was_cached) =>
            IF JobMissing(call[t].job_id)
            THEN /\ call[t].pc = "raised"
                 /\ call[t].error = "ValueError"
                 /\ call[t].trace = <<>>
                 /\ call[t].results = <<>>
                 /\ cache = call[t].cache_at_start
                 /\ call[t].job_id \notin DOMAIN cache
            ELSE /\ call[t].error # "ValueError"
                 /\ call[t].pc \notin {"build", "insert"} =>
                        /\ call[t].job_id \in DOMAIN cache
                        /\ cache[call[t].job_id] = call[t].job_context

\* after a lookup of the job had failed, a later call built and cached its context
C4_BuiltAfterFailure ==
    \E t \in Callers :
        /\ HasContext(t)
        /\ ~call[t].was_cached
        /\ hist[call[t].job_id].lookups = 2
        /\ hist[call[t].job_id].found = 1
        /\ cache[call[t].job_id] = call[t].job_context

\* C5: in a batch, a candidate id without a record gets an all-zero score at its
\* position and raises nothing; every other candidate the loop has reached has
\* the outcome scoring it against the batch's Job Context produces.
C5_MissingCandidateZero ==
    \A t \in Callers :
        \A k \in 1..Len(call[t].trace) :
            LET cid == call[t].trace[k].candidate_id
            IN  /\ cid = call[t].candidate_ids[k]
                /\ IF get_candidate_by_id(cid) = <<>>
                   THEN /\ call[t].trace[k].kind = "score"
                        /\ k <= Len(call[t].results)
                        /\ AllZero(call[t].results[k])
                   ELSE \E o \in Outcomes(cid, heap[call[t].job_context], call[t].weights) :
                            /\ o.kind = call[t].trace[k].kind
                            /\ o.kind = "score" =>
                                  /\ k <= Len(call[t].results)
                                  /\ call[t].results[k] = o.score

\* a batch returned with a zero score between two ordinary scores
C5_ZeroBetweenScores ==
    \E t \in Callers :
        /\ call[t].pc = "done"
        /\ IsBatch(t)
        /\ call[t].candidate_ids = <<1, 0, 1>>
        /\ Len(call[t].results) = 3
        /\ AllZero(call[t].results[2])
        /\ ~AllZero(call[t].results[1])
        /\ ~AllZero(call[t].results[3])

\* C6: no metric raises, so scoring a found candidate never ends a call with the
\* exception of a metric.
C6_MetricsNeverRaise ==
    \A t \in Callers :
        \A k \in 1..Len(call[t].trace) :
            call[t].trace[k].kind = "raised" => call[t].error # "AttributeError"

\* C7: a batch for an existing job, with the default weights, returns, and returns
\* as many scores as candidate ids, the i-th being a score of candidate_ids[i].
C7_BatchReturnsAllInOrder ==
    \A t \in Callers :
        (/\ IsBatch(t)
         /\ call[t].weights = <<>>
         /\ ~JobMissing(call[t].job_id)
         /\ call[t].pc \in {"done", "raised"}) =>
            /\ call[t].pc = "done"
            /\ Len(call[t].results) = Len(call[t].candidate_ids)
            /\ \A k \in 1..Len(call[t].results) :
                  \E o \in Outcomes(call[t].candidate_ids[k], heap[call[t].job_context],
                                    call[t].weights) :
                      o.kind = "score" /\ o.score = call[t].results[k]

\* C8: a batch obtains the Job Context once, before it scores: at most one job
\* lookup, none when the job was cached, and every candidate scored against the
\* object obtained, which is the one the cache holds.
C8_ContextObtainedOnce ==
    \A t \in Callers :
        IsBatch(t) =>
            /\ call[t].lookups <= 1
            /\ call[t].was_cached => call[t].lookups = 0
            /\ call[t].obtained <= 1
            /\ (HasContext(t) \/ call[t].trace # <<>>) =>
                  /\ call[t].obtained = 1
                  /\ cache[call[t].job_id] = call[t].job_context
            /\ \A k \in 1..Len(call[t].trace) :
                  call[t].trace[k].ctx = call[t].job_context

\* a batch of several candidates on a cached job has returned without a lookup
C8_CachedBatchDone ==
    \E t \in Callers :
        /\ IsBatch(t)
        /\ call[t].pc = "done"
        /\ call[t].was_cached
        /\ Len(call[t].trace) >= 2
        /\ call[t].lookups = 0

\* C9: for a candidate with years_of_experience >= 0 every metric score lies in
\* [0, 1], and so does, with the default weights, the overall_score (and every
\* score of the returned SimilarityScore).
C9_ScoresInUnitInterval ==
    probe.phase = "scored" =>
        LET m == probe.metrics
            s == probe.out.score
        IN  /\ InUnit(m.skills)
            /\ InUnit(m.education)
            /\ InUnit(m.language)
            /\ InUnit(m.certification)
            /\ InUnit(m.semantic)
            /\ InUnit(m.seniority)
            /\ ~m.raised => InUnit(m.experience)
            /\ (probe.weights = <<>> /\ probe.out.kind = "score") =>
                  /\ InUnit(s.overall_score)
                  /\ InUnit(s.skills_score)
                  /\ InUnit(s.experience_score)
                  /\ InUnit(s.education_score)
                  /\ InUnit(s.semantic_similarity)
                  /\ InUnit(s.seniority_match)
                  /\ InUnit(s.detailed_breakdown.certification_score)

\* a long career scored with the default weights while the provider answers with
\* a similarity the conversion has to clamp
C9_ClampedScore ==
    /\ probe.phase = "scored"
    /\ probe.weights = <<>>
    /\ probe.out.kind = "score"
    /\ probe.candidate.years_of_experience = <<MaxYears>>
    /\ probe.metrics.semantic = <<1, 1>>
    /\ probe.metrics.seniority = <<7, 10>>

\* sum over the supplied keys of weight times the metric's score
RECURSIVE SuppliedWeightedSum(_, _, _)
SuppliedWeightedSum(m, w, keys) ==
    IF keys = {} THEN Zero
    ELSE LET k == CHOOSE x \in keys : TRUE
         IN  RAdd(RMul(w[k], m[k]), SuppliedWeightedSum(m, w, keys \ {k}))

\* C10: with any supplied weight map of positive total, a map naming some of the
\* metrics included, scoring a found candidate returns a score whose overall_score
\* is the weighted sum over the supplied keys divided by the sum of the weights.
C10_AnyWeightMapNormalises ==
    (/\ probe.phase = "scored"
     /\ Len(probe.weights) = 1
     /\ ~probe.metrics.raised) =>
        LET w == probe.weights[1]
        IN  RGt(SumValues(w), Zero) =>
                /\ probe.out.kind = "score"
                /\ probe.out.score.overall_score =
                      Round4(RDiv(SuppliedWeightedSum(probe.metrics, w, DOMAIN w),
                                  SumValues(w)))

\* entry x comes before entry y in the ranking: higher score, or the same score
\* and earlier in the candidate list
RanksBefore(x, y) ==
    \/ RGt(x.overall_score, y.overall_score)
    \/ x.overall_score = y.overall_score /\ x.candidate_id < y.candidate_id

Qualifying(results, min_score) ==
    {[candidate_id |-> i, overall_score |-> results[i]] :
        i \in {k \in 1..Len(results) : RGe(results[k], min_score)}}

\* C11: the ranking holds only candidates with overall_score >= min_score, each
\* with its own score, in descending score order with equal scores in candidate
\* list order; it holds the first `limit` of them in that order, all of them
\* when there are fewer.
C11_RankingFilteredSortedCut ==
    probe.phase = "ranked" =>
        LET out == probe.matching_candidates
            q   == Qualifying(probe.similarity_results, probe.min_score)
        IN  /\ \A k \in 1..Len(out) : out[k] \in q
            /\ \A k \in 1..(Len(out) - 1) : RanksBefore(out[k], out[k + 1])
            /\ Len(out) = IF Cardinality(q) < probe.limit THEN Cardinality(q)
                          ELSE probe.limit
            /\ \A x \in q :
                  (\A k \in 1..Len(out) : out[k] # x) =>
                      \A k \in 1..Len(out) : RanksBefore(out[k], x)

\* a ranking that dropped a candidate below min_score, kept two of equal score in
\* list order after a later, better one, and cut a qualifying candidate off
C11_TieKeptAndCut ==
    /\ probe.phase = "ranked"
    /\ probe.similarity_results = <<R(1, 2), Zero, R(1, 2), One>>
    /\ probe.min_score = R(1, 2)
    /\ probe.limit = 2
    /\ probe.matching_candidates =
          <<[candidate_id |-> 4, overall_score |-> One],
            [candidate_id |-> 1, overall_score |-> R(1, 2)]>>

\* a candidate skill list and a required skill list that agree up to letter case:
\* every required skill has a candidate skill spelled with other letter case, and
\* the candidate has no skill beyond those
OnlyCaseDiffers(candidate_skills, required_skills) ==
    /\ Len(required_skills) > 0
    /\ \A r \in Range(required_skills) :
          \E c \in Range(candidate_skills) : c # r /\ Lower(c) = Lower(r)
    /\ \A c \in Range(candidate_skills) :
          \E r \in Range(required_skills) : Lower(c) = Lower(r)

\* C12: when every required skill is matched by a candidate skill that differs
\* from it only in letter case and the candidate has no other skills, the Skills
\* metric returns 1.0
C12_CaseOnlyMatchScoresOne ==
    (/\ probe.phase = "skills"
     /\ OnlyCaseDiffers(extract_candidate_skills(probe.candidate),
                        probe.job_context.required_skills))
        => probe.value = One

\* the band the reference gives a recognised label, <<>> for any other label
ReferenceBand(label) ==
    CASE label = "entry-level" -> <<0, 2>>
      [] label = "junior" -> <<0, 3>>
      [] label = "mid-level" -> <<3, 7>>
      [] label = "senior" -> <<7, 15>>
      [] label = "lead" -> <<5, 100>>
      [] label = "principal" -> <<10, 100>>
      [] label = "executive" -> <<15, 100>>
      [] OTHER -> <<>>

SeniorityReference(years, label, min_years_experience) ==
    IF ReferenceBand(label) # <<>>
    THEN IF ReferenceBand(label)[1] <= years /\ years <= ReferenceBand(label)[2] THEN One
         ELSE IF years < ReferenceBand(label)[1]
         THEN RMax(R(3, 10), R(years, IntMax(ReferenceBand(label)[1], 1)))
         ELSE RMax(R(7, 10),
                   RSub(One, RMul(R(1, 20), RInt(years - ReferenceBand(label)[2]))))
    ELSE IF min_years_experience = 0 THEN R(4, 5)
    ELSE IF years >= min_years_experience THEN One
    ELSE RMax(R(3, 10), R(years, min_years_experience))

\* C13: for every candidate years value and job, the Seniority metric returns the
\* reference value: 1.0 inside the band of the lower-cased seniority label,
\* max(0.3, years/max(min,1)) below it, max(0.7, 1 - 0.05*(years - max)) above it,
\* and for an unrecognised label 1.0 / max(0.3, years/min_years_experience) / 0.8
C13_SeniorityEqualsReference ==
    probe.phase = "seniority"
        => probe.value =
             SeniorityReference(OrZero(Get(probe.candidate, "years_of_experience", Some(0))),
                                Lower(probe.job_context.seniority_level),
                                probe.job_context.min_years_experience)

\* a senior role and a candidate five years above its band (0.75), reached
C13_AboveSeniorBand ==
    /\ probe.phase = "seniority"
    /\ probe.job_context.seniority_level = "Senior"
    /\ probe.candidate.years_of_experience = Some(20)
    /\ probe.value = R(3, 4)

\* the fixed ordinal map of the reference; 0 for a level outside it
ReferenceRank(level) ==
    CASE level \in {"basic", "elementary", "beginner"} -> 1
      [] level \in {"intermediate", "conversational"} -> 2
      [] level = "advanced" -> 3
      [] level = "fluent" -> 4
      [] level \in {"native", "bilingual"} -> 5
      [] OTHER -> 0

ReferenceProficiencyRatio(candidate_rank, required_rank) ==
    IF candidate_rank >= required_rank THEN One ELSE R(candidate_rank, required_rank)

\* the reference score of one requirement against the extracted candidate languages
ReferenceLanguageScore(required, candidate_languages) ==
    RMaxSet({Zero} \cup
            {RMul(SMRatio(required.language, candidate_languages[i].language),
                  ReferenceProficiencyRatio(
                      ReferenceRank(candidate_languages[i].proficiency),
                      ReferenceRank(required.required_level))) :
                i \in {k \in DOMAIN candidate_languages :
                         RGe(SMRatio(required.language, candidate_languages[k].language),
                             R(4, 5))}})

RECURSIVE ReferenceLanguageSum(_, _)
ReferenceLanguageSum(requirements, candidate_languages) ==
    IF Len(requirements) = 0 THEN Zero
    ELSE RAdd(ReferenceLanguageScore(Head(requirements), candidate_languages),
              ReferenceLanguageSum(Tail(requirements), candidate_languages))

\* every proficiency and required level is one of the fixed map
LevelsInMap(requirements, candidate_languages) ==
    /\ \A i \in DOMAIN requirements : ReferenceRank(requirements[i].required_level) > 0
    /\ \A i \in DOMAIN candidate_languages :
          ReferenceRank(candidate_languages[i].proficiency) > 0

\* C14: with at least one requirement and candidate languages that can be read,
\* the Language metric is the average over the
\* the requirements of the best name_similarity * proficiency_ratio among the
\* candidate languages whose name ratio is >= 0.8 (0 when there is none)
C14_LanguageEqualsReference ==
    (/\ probe.phase = "language"
     /\ Len(probe.job_context.required_languages) > 0
     /\ ~extract_candidate_languages_raises(probe.candidate)
     /\ LevelsInMap(probe.job_context.required_languages,
                    extract_candidate_languages(probe.candidate)))
        => probe.value =
             RDiv(ReferenceLanguageSum(probe.job_context.required_languages,
                                       extract_candidate_languages(probe.candidate)),
                  RInt(Len(probe.job_context.required_languages)))

\* required english/fluent against candidate English/native scored 1.0, reached
C14_EnglishFluentNative ==
    /\ probe.phase = "language"
    /\ probe.job_context.required_languages =
          <<[language |-> "english", required_level |-> "fluent"]>>
    /\ probe.candidate.languages = <<[language |-> "English", proficiency |-> "native"]>>
    /\ probe.value = One

\* the fields of a Job Context other than the embedding index
ExtractedFields(job_context) == [job_context EXCEPT !.vector_store = "None"]

\* the extracted fields of object o are those computed from the row it holds
BuiltWith(o) ==
    ExtractedFields(heap[o]) = BuildJobContext(heap[o].job_id, heap[o].job_data)

\* a step of an Experience-metric call on object o: a caller in the scoring loop
\* holding o scores its next candidate
ScoredAgainst(o) ==
    \E t \in Callers :
        /\ call[t].pc = "score"
        /\ call[t].job_context = o
        /\ Len(call'[t].trace) = Len(call[t].trace) + 1

\* one step leaves the extracted fields of o alone and changes its embedding
\* index only from absent to present, while o is being scored against
IndexSetOnce(o) ==
    /\ ExtractedFields(heap'[o]) = ExtractedFields(heap[o])
    /\ heap'[o].vector_store # heap[o].vector_store
         => /\ heap[o].vector_store = "None"
            /\ heap'[o].vector_store # "None"
            /\ ScoredAgainst(o)

\* C15: the extracted fields of every cached Job Context are the values it was
\* built with, and its embedding index changes at most once, from absent to
\* present, during a scoring call on it, and is never replaced or cleared later
C15_ContextImmutableButIndex ==
    /\ [](\A j \in DOMAIN cache : BuiltWith(cache[j]))
    /\ [][\A o \in DOMAIN heap \cap DOMAIN heap' : IndexSetOnce(o)]_vars

\* a cached context that carries its index while the stored record it was built
\* from has since been replaced, reached
C15_IndexedAfterUpdate ==
    \E j \in DOMAIN cache :
        /\ heap[cache[j]].vector_store = "indexed"
        /\ jobDB[j] # <<>>
        /\ jobDB[j][1] # heap[cache[j]].job_data

\* the SimilarityScore of candidate_id against a Job Context whose index is still
\* absent, with the provider answering
ScoreAlone(candidate_id, job_context, weights) ==
    calculate_similarity_with_context(get_candidate_by_id(candidate_id),
                                      ExtractedFields(job_context), weights, TRUE).score

\* C16: with a provider that always answers, every score a call has returned so far
\* is the score of that candidate alone against the Job Context: it depends neither
\* on whether the index was already built nor on the candidates scored before it
C16_ScoreIndependentOfHistory ==
    \A t \in Callers :
        \A k \in 1..Len(call[t].results) :
            call[t].results[k] =
                ScoreAlone(call[t].candidate_ids[k], heap[call[t].job_context],
                           call[t].weights)

\* one batch on a context cached by an earlier call scored candidate 1 at
\* positions 1 and 3: the two scores are equal and not the empty score, reached
C16_SameCandidateTwice ==
    \E t \in Callers :
        /\ call[t].was_cached
        /\ Len(call[t].results) = 3
        /\ call[t].candidate_ids[1] = 1
        /\ call[t].candidate_ids[3] = 1
        /\ call[t].candidate_ids[2] = 3
        /\ call[t].results[1] = call[t].results[3]
        /\ ~AllZero(call[t].results[1])

\* the entry of the result that carries a metric's score: a named field, or an
\* entry of detailed_breakdown; <<>> when the result has none
Reported(score, field, entry) ==
    IF field \in DOMAIN score THEN <<score[field]>>
    ELSE IF entry \in DOMAIN score.detailed_breakdown
    THEN <<score.detailed_breakdown[entry]>>
    ELSE <<>>

\* C17: the SimilarityScore returned for a found candidate reports the overall
\* score and each of the seven metric scores, the language score and the
\* certification score included
C17_AllSevenScoresReported ==
    (probe.phase = "scored" /\ probe.out.kind = "score")
        => /\ "overall_score" \in DOMAIN probe.out.score
           /\ Reported(probe.out.score, "skills_score", "skills_score")
                 = <<Round4(probe.metrics.skills)>>
           /\ Reported(probe.out.score, "experience_score", "experience_score")
                 = <<Round4(probe.metrics.experience)>>
           /\ Reported(probe.out.score, "education_score", "education_score")
                 = <<Round4(probe.metrics.education)>>
           /\ Reported(probe.out.score, "semantic_similarity", "semantic_score")
                 = <<Round4(probe.metrics.semantic)>>
           /\ Reported(probe.out.score, "seniority_match", "seniority_score")
                 = <<Round4(probe.metrics.seniority)>>
           /\ Reported(probe.out.score, "certification_score", "certification_score")
                 = <<Round4(probe.metrics.certification)>>
           /\ Reported(probe.out.score, "language_score", "language_score")
                 = <<Round4(probe.metrics.language)>>

\* job ids for which a preprocess_job has returned a context since the last
\* eviction of that id
BuiltAndNotEvicted == {j \in JobArgIds : hist[j].returned # {}}

NoDuplicates(ids) == \A a, b \in DOMAIN ids : ids[a] = ids[b] => a = b

\* C18: get_cached_job_ids() lists, without duplicates, exactly the job ids whose
\* build succeeded and that were not evicted since; each cached entry's job_id
\* equals its key; clear_cache() without an argument leaves the cache empty
C18_CachedIdsAreBuiltIds ==
    /\ [](/\ NoDuplicates(get_cached_job_ids(cache))
          /\ Range(get_cached_job_ids(cache)) = BuiltAndNotEvicted
          /\ \A j \in DOMAIN cache : heap[cache[j]].job_id = j)
    /\ [][ClearCache(<<>>) => get_cached_job_ids(cache') = <<>>]_vars

\* job 1 is listed alone after job 2 was looked up and not found, reached
C18_FailedBuildNotListed ==
    /\ get_cached_job_ids(cache) = <<1>>
    /\ hist[2].lookups > 0
    /\ hist[2].found = 0
    /\ AllIdle

\* while job id j stays cached, its entry is the same object with the same
\* extracted fields, and only clear_cache removes it
EntryKept(j) ==
    /\ (j \in DOMAIN cache /\ j \in DOMAIN cache')
          => /\ cache'[j] = cache[j]
             /\ ExtractedFields(heap'[cache[j]]) = ExtractedFields(heap[cache[j]])
    /\ (j \in DOMAIN cache /\ j \notin DOMAIN cache')
          => \E a \in {<<>>} \cup {<<i>> : i \in JobArgIds} : ClearCache(a)

\* a preprocess_job(j) that finds j cached returns the cached object without a
\* lookup, whatever the stored record is now
CachedReturned(t) ==
    (call[t].pc = "check" /\ call'[t].pc # "check" /\ call[t].job_id \in DOMAIN cache)
        => /\ call'[t].job_context = cache[call[t].job_id]
           /\ call'[t].lookups = 0
           /\ call'[t].pc # "lookup"

\* a preprocess_job(j) that does not find j cached looks the record up, and what
\* it caches is a context built from the record stored now, without an index
FreshBuilt(t) ==
    /\ (call[t].pc = "check" /\ call'[t].pc # "check" /\ call[t].job_id \notin DOMAIN cache)
          => call'[t].pc = "lookup"
    /\ (call[t].pc = "insert" /\ call'[t].pc # "insert")
          => /\ call[t].lookups = 1
             /\ jobDB[call[t].job_id] # <<>>
             /\ cache'[call[t].job_id] = call[t].job_context
             /\ heap'[call[t].job_context] =
                   BuildJobContext(call[t].job_id, jobDB[call[t].job_id][1])

\* C19: the cached context of job j keeps being returned unchanged until
\* clear_cache evicts it, even when j's record is updated or deleted; the first
\* preprocess_job(j) after the eviction looks the record up again and builds a
\* fresh context from the record as it is then, with no embedding index
C19_StaleUntilEvictedThenFresh ==
    [][/\ \A j \in JobArgIds : EntryKept(j)
       /\ \A t \in Callers : CachedReturned(t) /\ FreshBuilt(t)]_vars

\* a call has been handed the cached context of a job whose record was deleted
\* after the build, reached
C19_ReturnedAfterDelete ==
    \E t \in Callers :
        /\ call[t].pc = "done"
        /\ call[t].was_cached
        /\ call[t].job_context = cache[call[t].job_id]
        /\ jobDB[call[t].job_id] = <<>>

NeutralOrZero(value, requirements, items, neutral) ==
    /\ Len(requirements) = 0 => value = neutral
    /\ (Len(requirements) > 0 /\ Len(items) = 0) => value = Zero

\* C21: for the Skills, Education, Language and Certification metrics the score is
\* the neutral value (0.8, 0.8, 0.9, 0.9) when the job states no requirement of
\* that kind, whatever the candidate has; otherwise it is 0.0 when the candidate
\* has no item of that kind
C21_NoRequirementFirst ==
    /\ probe.phase = "skills"
          => NeutralOrZero(probe.value, probe.job_context.required_skills,
                           Get(probe.candidate, "skills", <<>>), R(4, 5))
    /\ probe.phase = "education"
          => NeutralOrZero(probe.value, probe.job_context.education_requirements,
                           Get(probe.candidate, "education", <<>>), R(4, 5))
    /\ probe.phase = "certification"
          => NeutralOrZero(probe.value, probe.job_context.required_certifications,
                           Get(probe.candidate, "certifications", <<>>), R(9, 10))
    /\ probe.phase = "language"
          => NeutralOrZero(probe.value, probe.job_context.required_languages,
                           Get(probe.candidate, "languages", <<>>), R(9, 10))

\* the required skills the reference counts as matched
ReferenceMatched(candidate_skills, required_skills) ==
    {r \in Range(required_skills) :
        \E c \in Range(candidate_skills) : c = r \/ RGe(SMRatio(r, c), R(3, 5))}

\* C22: with both lists non-empty the Skills metric is the number of distinct
\* matched required skills (verbatim, or ratio >= 0.6 to some candidate skill)
\* over the size of the union of the distinct candidate and required skills; it
\* never exceeds 1.0 and is 0.0 when nothing matches
C22_SkillsMatchedOverUnion ==
    (/\ probe.phase = "skills"
     /\ Len(extract_candidate_skills(probe.candidate)) > 0
     /\ Len(probe.job_context.required_skills) > 0)
        => /\ probe.value =
                R(Cardinality(ReferenceMatched(extract_candidate_skills(probe.candidate),
                                               probe.job_context.required_skills)),
                  Cardinality(Range(extract_candidate_skills(probe.candidate))
                                \cup Range(probe.job_context.required_skills)))
           /\ RLe(probe.value, One)
           /\ ReferenceMatched(extract_candidate_skills(probe.candidate),
                               probe.job_context.required_skills) = {}
                 => probe.value = Zero

\* required ["Python"] against candidate ["Java"] scored 0.0, reached
C22_PythonJavaZero ==
    /\ probe.phase = "skills"
    /\ probe.job_context.required_skills = <<"Python">>
    /\ extract_candidate_skills(probe.candidate) = <<"Java">>
    /\ probe.value = Zero

\* the years component of the reference: max_preferred is <<>> when no max is set
ReferenceYears(candidate_years, min_required, max_preferred) ==
    IF candidate_years < min_required
    THEN R(candidate_years, IntMax(min_required, 1))
    ELSE IF max_preferred = <<>> \/ candidate_years <= max_preferred[1] THEN One
    ELSE RMax(R(4, 5),
              RSub(One, RMul(R(1, 20), RInt(candidate_years - max_preferred[1]))))

\* C23: the Experience metric returns 0.6*years + 0.4*relevance, where years is
\* 1.0 at or above the minimum when no max is set or the max is not exceeded,
\* max(0.8, 1 - 0.05*(years - max)) beyond the max, years/max(min, 1) below the
\* minimum, and relevance is 0.3 without positions, else the average over them
C23_ExperienceYearsAndRelevance ==
    probe.phase = "experience"
        => /\ ~probe.raised
           /\ probe.years_score =
                ReferenceYears(OrZero(Get(probe.candidate, "years_of_experience", Some(0))),
                               probe.job_context.min_years_experience,
                               probe.job_context.max_years_experience)
           /\ Len(Get(probe.candidate, "experience", <<>>)) = 0
                 => probe.relevance = R(3, 10)
           /\ probe.value = RAdd(RMul(R(3, 5), probe.years_score),
                                 RMul(R(2, 5), probe.relevance))

\* C24: for a found candidate a scoring call invokes each of the seven metrics
\* exactly once, in the order Skills, Certification, Education, Experience,
\* Semantic, Seniority, Language
C24_MetricsInvokedInOrder ==
    probe.phase = "scored"
        => probe.invoked =
             <<"skills", "certification", "education", "experience", "semantic",
               "seniority", "language">>

\* C25: the detailed breakdown of every score computed for a found candidate holds
\* the weight map used and the job_id of the context, and its cached flag tells
\* whether the Job Context was in the cache when the call began
C25_BreakdownTellsCached ==
    \A t \in Callers :
        \A k \in 1..Len(call[t].results) :
            get_candidate_by_id(call[t].candidate_ids[k]) # <<>>
                => /\ call[t].results[k].detailed_breakdown.job_id = call[t].job_id
                   /\ call[t].results[k].detailed_breakdown.weights_used =
                         (IF call[t].weights = <<>> THEN DefaultWeights
                          ELSE call[t].weights[1])
                   /\ call[t].results[k].detailed_breakdown.cached = call[t].was_cached

\* C26: a failed build of the embedding index leaves the Job Context without an
\* index, so that a later call builds it again: an index present on a Job Context
\* always holds the job's responsibilities document
C26_PresentIndexHoldsDocument ==
    \A o \in DOMAIN heap : heap[o].vector_store \in {"None", "indexed"}


\* C27: create_batches returns batches that are all non-empty and hold at most
\* batch_size files each (batch_size a positive number of files), and whose
\* concatenation in order is the input list without the files whose size
\* could not be read.
RECURSIVE Concatenation(_)
Concatenation(batches) ==
    IF batches = <<>> THEN <<>> ELSE Head(batches) \o Concatenation(Tail(batches))

Sizable(file_path) == file_path.size # NoInt

C27_BatchesPartitionSizableFiles ==
    probe.phase = "batches" =>
        /\ \A b \in DOMAIN probe.batches :
               /\ probe.batches[b] # <<>>
               /\ Len(probe.batches[b]) <= probe.batch_size
        /\ Concatenation(probe.batches) = SelectSeq(probe.file_paths, Sizable)

C27_UnsizableFileDroppedAndSplit ==
    /\ probe.phase = "batches"
    /\ \E i \in DOMAIN probe.file_paths : ~Sizable(probe.file_paths[i])
    /\ Len(probe.batches) >= 2
    /\ \E b \in DOMAIN probe.batches : Len(probe.batches[b]) = probe.batch_size

\* C28: when max_size_mb is given, the files of every batch returned by
\* create_batches total at most max_size_mb megabytes.
RECURSIVE TotalSize(_)
TotalSize(batch) ==
    IF batch = <<>> THEN 0 ELSE Head(batch).size[1] + TotalSize(Tail(batch))

C28_BatchWithinMaxSize ==
    (probe.phase = "batches" /\ probe.max_size_mb # NoInt) =>
        \A b \in DOMAIN probe.batches :
            TotalSize(probe.batches[b]) <= probe.max_size_mb[1] * MB


\* C29: a failed attempt to parse a batch (the LLM call errors, say) is
\* re-attempted, BATCH_RETRY_ATTEMPTS attempts being made at most; the result
\* of the first attempt that succeeds is returned, and when every attempt
\* failed the result has successful_parses = 0 and failed_parses = the number
\* of files of the batch.
C29_FailedAttemptRetried ==
    probe.phase \in {"batch", "returned"} =>
        \A b \in DOMAIN probe.all_batch_results :
            /\ probe.all_batch_results[b].attempts <= BATCH_RETRY_ATTEMPTS
            /\ probe.all_batch_results[b].failed =>
                   /\ probe.all_batch_results[b].attempts = BATCH_RETRY_ATTEMPTS
                   /\ probe.all_batch_results[b].batch_result.successful_parses = 0
                   /\ probe.all_batch_results[b].batch_result.failed_parses
                          = Len(probe.batches[b])

\* C30: the statistics of process_cv_files satisfy total_successful +
\* total_failed = total_files, and every supported input file is counted in
\* exactly one batch result, whatever files fail to be sized, read or parsed.
RECURSIVE CountedFiles(_)
CountedFiles(all_batch_results) ==
    IF all_batch_results = <<>> THEN 0
    ELSE Head(all_batch_results).batch_result.total_files
             + CountedFiles(Tail(all_batch_results))

C30_StatsAddUp ==
    probe.phase = "returned" =>
        /\ probe.stats.total_successful + probe.stats.total_failed
               = probe.stats.total_files
        /\ Concatenation(probe.batches) = probe.supported_files
        /\ CountedFiles(probe.all_batch_results) = Len(probe.supported_files)

=============================================================================
